---- MODULE Spec2Model ----
(***************************************************************************)
(* News ingestion backend: the Store (SQLAlchemy and MongoDB variants),    *)
(* the scraping pipeline (BaseNewsScraper / SETNScraper) and the periodic  *)
(* scheduler (api/scheduler.py), as one state machine.                     *)
(***************************************************************************)
EXTENDS Integers, Sequences, FiniteSets, TLC

(***************************************************************************)
(* Bounds of the model.                                                    *)
(***************************************************************************)
MaxId == 2
MaxBatch == 2
MaxOps == 1
MaxPages == 2
MaxItems == 2
MaxRuns == 2
MaxThreshold == 2
MaxDays == 3
MaxTicks == 1
MaxStarts == 3
MaxStops == 1
MaxManual == 1
MaxJobs == 4
MaxCycles == 2
MaxFaults == 1
Tick == 1800

Procs == {1, 2}
Sources == {"SETN", "LTN"}
Ids == 1..MaxId
Titles == {"a", "b"}

\* db/models.py News, restricted to the columns the operations read
Records == [news_source : Sources, news_id : Ids, title : Titles]

\* the three Store classes of the repository
Impls == {"orm_root", "orm_db", "mongo"}

VARIABLES
    impl,     \* which Store class is bound as the database instance
    store,    \* committed rows of the news table / collection, in insert order
    caller,   \* per caller: the frame of the Store operation it is running
    scraper,  \* the scraper instance of the pipeline run and its call arguments
    feed,     \* the remote site: list pages and which detail pages load
    run,      \* the locals of scrape_news and the history of the run
    clock,    \* wall clock, in seconds since midnight of the first day
    sched,    \* api/scheduler.py: the scheduler_task global and the callers of it
    tasks,    \* the run_scheduler tasks created so far
    jobs,     \* the run_scraper_job invocations in progress
    db_up,    \* whether the database answers (FALSE: every Store call errors)
    extract,  \* _extract_news_id called in two successive processes
    manager,  \* the locals of UnifiedScraperManager.run_all_scrapers
    page_fetch, \* the locals of _get_page_content inside the page loop
    job_run,  \* one run_scraper_job call with its scraper_worker
    norm      \* one _normalize_date_format call and the clock it reads

(***************************************************************************)
(* Constants and idle state of the scheduler (api/scheduler.py).            *)
(***************************************************************************)
SecondsPerHour == 3600
HoursPerDay == 24
SecondsPerDay == HoursPerDay * SecondsPerHour
AnchorHour == 2
CooldownSeconds == 300

\* the SCHEDULER_INTERVAL values the model starts the scheduler with
Intervals == {6, 24}

\* the wall-clock times at which the process starts
StartTimes == {3600, 7199, 7200, 32400}

\* UnifiedScraperManager.scrapers, in insertion order
ScraperOrder == <<"SETN", "LTN">>

NoTask == 0
TaskIds == 1..MaxStarts

NewTask ==
    [state |-> "none", wake |-> 0, started_at |-> 0, gaps |-> <<>>,
     last_end |-> 0, must_cancel |-> FALSE, job |-> 0,
     failed_at |-> 0, cooldowns |-> <<>>]

IdleSched ==
    [scheduler_task |-> NoTask, interval_hours |-> HoursPerDay, created |-> 0,
     starts |-> 0, stops |-> 0, manuals |-> 0, njobs |-> 0, ticks |-> 0,
     stop_pc |-> "idle", stop_target |-> NoTask, faults |-> 0,
     stop_seen |-> [task |-> NoTask, state |-> "none", triggers |-> 0],
     last_start |-> [was_running |-> FALSE, returned |-> NoTask, before |-> NoTask,
                     after |-> NoTask, new_tasks |-> 0, new_jobs |-> 0]]

schedVars == <<clock, sched, tasks, jobs>>
restVars == <<impl, store, caller, scraper, feed, run>>
lateVars == <<job_run, norm>>
otherVars == <<db_up, extract, manager, page_fetch, job_run, norm>>
allVars ==
    <<impl, store, caller, scraper, feed, run, clock, sched, tasks, jobs,
      db_up, extract, manager, page_fetch, job_run, norm>>

\* no _extract_news_id call made yet
IdleExtract ==
    [pc |-> "idle", cls |-> "LTNScraper", url |-> <<>>, seed |-> 0,
     first |-> <<>>, again |-> <<>>, next |-> <<>>]

\* run_all_scrapers not called
IdleManager ==
    [pc |-> "idle", scrapers |-> <<>>, max_pages |-> 1, idx |-> 1,
     results |-> <<>>,
     total_stats |-> [total |-> 0, new |-> 0, skipped |-> 0, failed |-> 0],
     calls |-> <<>>, returned |-> <<>>]

\* scrape_news has not asked for a page yet
IdleFetch ==
    [pc |-> "idle", max_retry |-> 0, max_pages |-> 0, page |-> 1,
     attempt |-> 0, responses |-> <<>>, sleeps |-> <<>>, pages |-> <<>>]

\* run_scraper_job not called
IdleJobRun ==
    [co |-> "idle", worker |-> "none", origin |-> "periodic", log |-> <<>>,
     raised |-> "none", worker_ret |-> <<>>, outcome |-> <<>>]

\* _normalize_date_format not called
IdleNorm ==
    [pc |-> "idle", cls |-> "SETNScraper", raw |-> <<>>, now |-> <<>>,
     current_year |-> 0, out |-> <<>>, calls |-> 1]

LateIdle ==
    /\ job_run = IdleJobRun
    /\ norm = IdleNorm

\* the components the specification at hand does not exercise
OtherIdle ==
    /\ LateIdle
    /\ db_up = TRUE
    /\ extract = IdleExtract
    /\ manager = IdleManager
    /\ page_fetch = IdleFetch

\* the scheduler before start_scheduler was ever called
SchedIdle ==
    /\ OtherIdle
    /\ clock = 0
    /\ sched = IdleSched
    /\ tasks = [t \in TaskIds |-> NewTask]
    /\ jobs = {}

(***************************************************************************)
(* A caller's frame:                                                       *)
(*   pc             position inside the operation                          *)
(*   news_items     argument of insert_news_batch                          *)
(*   news_data      argument of the running insert_news_item               *)
(*   idx            loop index over news_items                             *)
(*   existing_pairs pairs the batch's existence queries returned           *)
(*   pending        rows added to the session / news_to_insert             *)
(*   insert_count   the insert_count local                                 *)
(*   in_fallback    insert_news_item runs inside _insert_news_one_by_one   *)
(*   ret            value returned by the last operation, or "raise"       *)
(*   batch_failed   history: the batch failed as a whole                   *)
(*   one_calls      history: results of the insert_news_item calls the     *)
(*                  running batch made                                     *)
(*   absent         history: pairs of news_items not stored at call time   *)
(*   ops            operations issued so far                               *)
(***************************************************************************)
\* what an operation gave back: a bool (insert_news_item), a count
\* (insert_news_batch) or an exception that left the operation
RetNone == [kind |-> "none", b |-> FALSE, n |-> 0]
RetBool(b) == [kind |-> "bool", b |-> b, n |-> 0]
RetInt(n) == [kind |-> "int", b |-> FALSE, n |-> n]
RetRaise == [kind |-> "raise", b |-> FALSE, n |-> 0]

IdleFrame ==
    [pc |-> "idle", news_items |-> <<>>, news_data |-> <<>>, idx |-> 1,
     existing_pairs |-> {}, pending |-> <<>>, insert_count |-> 0,
     in_fallback |-> FALSE, ret |-> RetNone, batch_failed |-> FALSE,
     one_calls |-> <<>>, absent |-> {}, ops |-> 0]

Pair(r) == <<r.news_source, r.news_id>>

Range(s) == {s[i] : i \in DOMAIN s}

\* an existence query that matches on news_id alone
ExistsAnySource(s, pr) == \E i \in DOMAIN s : s[i].news_id = pr[2]

\* an existence query whose filter never matches a row
ExistsNever(s, pr) == FALSE

\* SELECT ... WHERE news_source = :s AND news_id = :i  ... first()
Exists(s, pr) == \E i \in DOMAIN s : Pair(s[i]) = pr

CountPair(s, pr) == Cardinality({i \in DOMAIN s : Pair(s[i]) = pr})

\* UniqueConstraint('news_source', 'news_id'): flushing rows to the table
\* committed as s violates it
ViolatesUnique(s, rows) ==
    \E pr \in Sources \X Ids : CountPair(s \o rows, pr) > 1

\* models_mongodb.News.meta: ('news_source', 'news_id') is a plain compound
\* index, not a unique one, so a save never conflicts
MongoViolatesUnique(s, rows) == FALSE

CommitConflict(s, rows) ==
    IF impl = "mongo" THEN MongoViolatesUnique(s, rows) ELSE ViolatesUnique(s, rows)

(***************************************************************************)
(* Store operations.  Each caller p runs one operation at a time; every    *)
(* database round trip (a query, a commit, a save) is one step, so two     *)
(* callers interleave exactly where two sessions can.                      *)
(***************************************************************************)

\* the frame of a caller whose insert_news_item returns result: either to
\* the caller, or into the loop of _insert_news_one_by_one
\* ("if self.insert_news_item(item): insert_count += 1")
ItemReturn(f, result) ==
    IF f.in_fallback
       THEN [f EXCEPT !.pc = "fallback",
                      !.insert_count = @ + (IF result THEN 1 ELSE 0),
                      !.one_calls = Append(@, [item |-> f.news_data,
                                                    result |-> result]),
                      !.idx = @ + 1]
       ELSE [f EXCEPT !.pc = "done", !.ret = RetBool(result)]

\* insert_news_item: the existence query (.first() / News.exists); a row
\* found means "return False", else the new row is added to the session
ItemQuery(p) ==
    /\ caller[p].pc = "item_query"
    /\ caller' = [caller EXCEPT ![p] =
          IF Exists(store, Pair(@.news_data))
             THEN ItemReturn(@, FALSE)
             ELSE [@ EXCEPT !.pc = "item_commit",
                            !.pending = <<caller[p].news_data>>]]
    /\ UNCHANGED <<impl, store, scraper, feed, run, schedVars, otherVars>>

\* an insert_news_item that lets the IntegrityError of the commit escape
ItemCommitRaises(p) ==
    /\ caller[p].pc = "item_commit"
    /\ IF CommitConflict(store, <<caller[p].news_data>>)
          THEN /\ caller' = [caller EXCEPT ![p] =
                     [@ EXCEPT !.pc = "done", !.ret = RetRaise]]
               /\ UNCHANGED store
          ELSE /\ caller' = [caller EXCEPT ![p] = ItemReturn(@, TRUE)]
               /\ store' = Append(store, caller[p].news_data)
    /\ UNCHANGED <<impl, scraper, feed, run, schedVars, otherVars>>

\* insert_news_item: session.commit (news.save() on MongoDB); an
\* IntegrityError is caught and turned into False
ItemCommit(p) ==
    /\ caller[p].pc = "item_commit"
    /\ IF CommitConflict(store, <<caller[p].news_data>>)
          THEN /\ caller' = [caller EXCEPT ![p] = ItemReturn(@, FALSE)]
               /\ UNCHANGED store
          ELSE /\ caller' = [caller EXCEPT ![p] = ItemReturn(@, TRUE)]
               /\ store' = Append(store, caller[p].news_data)
    /\ UNCHANGED <<impl, scraper, feed, run, schedVars, otherVars>>

\* _insert_news_one_by_one: the loop head; returns insert_count at the end
Fallback(p) ==
    /\ caller[p].pc = "fallback"
    /\ LET f == caller[p] IN
       caller' = [caller EXCEPT ![p] =
          IF f.idx <= Len(f.news_items)
             THEN [f EXCEPT !.pc = "item_query",
                            !.news_data = f.news_items[f.idx]]
             ELSE [f EXCEPT !.pc = "done", !.ret = RetInt(f.insert_count),
                            !.in_fallback = FALSE]]
    /\ UNCHANGED <<impl, store, scraper, feed, run, schedVars, otherVars>>

\* the items of a batch whose pair is not among the pairs found existing
\* ("if pair not in existing_pairs: news_to_insert.append(news)")
RECURSIVE FilterNew(_, _)
FilterNew(items, found) ==
    IF items = <<>> THEN <<>>
    ELSE IF Pair(Head(items)) \in found
            THEN FilterNew(Tail(items), found)
            ELSE <<Head(items)>> \o FilterNew(Tail(items), found)

\* news_orm_db.py insert_news_batch: one existence query per item inside one
\* session; the session has autoflush=False, so the query sees committed
\* rows only, never the rows this batch has already added
RootBatchLoop(p) ==
    /\ caller[p].pc = "root_loop"
    /\ LET f == caller[p]
           item == f.news_items[f.idx]
           last == f.idx = Len(f.news_items)
       IN caller' = [caller EXCEPT ![p] =
             IF Exists(store, Pair(item))
                THEN [f EXCEPT !.idx = f.idx + 1,
                               !.pc = IF last THEN "root_commit" ELSE "root_loop"]
                ELSE [f EXCEPT !.idx = f.idx + 1,
                               !.pending = Append(f.pending, item),
                               !.insert_count = f.insert_count + 1,
                               !.pc = IF last THEN "root_commit" ELSE "root_loop"]]
    /\ UNCHANGED <<impl, store, scraper, feed, run, schedVars, otherVars>>

\* news_orm_db.py insert_news_batch: leaving "with get_db_session()" commits;
\* on an IntegrityError get_db_session rolls back and re-raises, and nothing
\* in insert_news_batch catches it
RootBatchCommit(p) ==
    /\ caller[p].pc = "root_commit"
    /\ LET f == caller[p] IN
       IF CommitConflict(store, f.pending)
          THEN /\ caller' = [caller EXCEPT ![p] =
                     [f EXCEPT !.pc = "done", !.ret = RetRaise,
                               !.batch_failed = TRUE]]
               /\ UNCHANGED store
          ELSE /\ caller' = [caller EXCEPT ![p] =
                     [f EXCEPT !.pc = "done", !.ret = RetInt(f.insert_count)]]
               /\ store' = store \o f.pending
    /\ UNCHANGED <<impl, scraper, feed, run, schedVars, otherVars>>

\* db/news_orm_db.py insert_news_batch: the one batched existence query
\* (news_source IN (...) AND news_id IN (...)) and the filter that follows
DbBatchQuery(p) ==
    /\ caller[p].pc = "db_query"
    /\ LET f == caller[p]
           srcs == {f.news_items[i].news_source : i \in DOMAIN f.news_items}
           ids == {f.news_items[i].news_id : i \in DOMAIN f.news_items}
           found == {Pair(store[i]) : i \in {j \in DOMAIN store :
                        store[j].news_source \in srcs /\ store[j].news_id \in ids}}
           todo == FilterNew(f.news_items, found)
       IN caller' = [caller EXCEPT ![p] =
             IF todo = <<>>
                THEN [f EXCEPT !.existing_pairs = found, !.pc = "done", !.ret = RetInt(0)]
                ELSE [f EXCEPT !.existing_pairs = found, !.pending = todo,
                               !.pc = "db_commit"]]
    /\ UNCHANGED <<impl, store, scraper, feed, run, schedVars, otherVars>>

\* db/news_orm_db.py insert_news_batch: add_all + commit; any exception is
\* caught and answered by _insert_news_one_by_one(news_items)
DbBatchCommit(p) ==
    /\ caller[p].pc = "db_commit"
    /\ LET f == caller[p] IN
       IF CommitConflict(store, f.pending)
          THEN /\ caller' = [caller EXCEPT ![p] =
                     [f EXCEPT !.pc = "fallback", !.idx = 1, !.insert_count = 0,
                               !.in_fallback = TRUE, !.batch_failed = TRUE]]
               /\ UNCHANGED store
          ELSE /\ caller' = [caller EXCEPT ![p] =
                     [f EXCEPT !.pc = "done", !.ret = RetInt(Len(f.pending)),
                               !.insert_count = Len(f.pending)]]
               /\ store' = store \o f.pending
    /\ UNCHANGED <<impl, scraper, feed, run, schedVars, otherVars>>

\* db/news_mongodb.py insert_news_batch: one News.exists call per item, then
\* the filter
MongoBatchExists(p) ==
    /\ caller[p].pc = "mongo_exists"
    /\ LET f == caller[p]
           item == f.news_items[f.idx]
           found == IF Exists(store, Pair(item))
                       THEN f.existing_pairs \cup {Pair(item)}
                       ELSE f.existing_pairs
           todo == FilterNew(f.news_items, found)
       IN caller' = [caller EXCEPT ![p] =
             IF f.idx < Len(f.news_items)
                THEN [f EXCEPT !.existing_pairs = found, !.idx = f.idx + 1]
                ELSE IF todo = <<>>
                        THEN [f EXCEPT !.existing_pairs = found, !.pc = "done",
                                       !.ret = RetInt(0)]
                        ELSE [f EXCEPT !.existing_pairs = found, !.pending = todo,
                                       !.idx = 1, !.pc = "mongo_save"]]
    /\ UNCHANGED <<impl, store, scraper, feed, run, schedVars, otherVars>>

\* db/news_mongodb.py insert_news_batch: news.save() for each row to insert
MongoBatchSave(p) ==
    /\ caller[p].pc = "mongo_save"
    /\ LET f == caller[p]
           last == f.idx = Len(f.pending)
       IN /\ caller' = [caller EXCEPT ![p] =
                IF last
                   THEN [f EXCEPT !.pc = "done", !.insert_count = f.insert_count + 1,
                                  !.ret = RetInt(f.insert_count + 1)]
                   ELSE [f EXCEPT !.idx = f.idx + 1,
                                  !.insert_count = f.insert_count + 1]]
          /\ store' = Append(store, f.pending[f.idx])
    /\ UNCHANGED <<impl, scraper, feed, run, schedVars, otherVars>>

\* the frame with which insert_news_batch(items) starts
BatchFrame(f, items) ==
    LET g == [IdleFrame EXCEPT
                 !.news_items = items, !.ops = f.ops + 1,
                 !.absent = {Pair(items[i]) : i \in {j \in DOMAIN items :
                                ~Exists(store, Pair(items[j]))}}] IN
    IF impl = "orm_root"
       THEN [g EXCEPT !.pc = IF items = <<>> THEN "root_commit" ELSE "root_loop"]
       ELSE IF items = <<>>
               THEN [g EXCEPT !.pc = "done", !.ret = RetInt(0)]
               ELSE [g EXCEPT !.pc = IF impl = "orm_db" THEN "db_query"
                                                         ELSE "mongo_exists"]

\* the frame with which insert_news_item(r) starts
ItemFrame(f, r) ==
    [IdleFrame EXCEPT !.news_data = r, !.pc = "item_query", !.ops = f.ops + 1]

\* what client p submits: its rows carry its own title, so that a stored row
\* tells who wrote it
TitleOf(p) == IF p = 1 THEN "a" ELSE "b"
ClientRecords(p) == {r \in Records : r.title = TitleOf(p)}

Callable(p) == caller[p].pc \in {"idle", "done"}

\* a client of the Store calls insert_news_item
CallInsertItem(p) ==
    /\ Callable(p)
    /\ caller[p].ops < MaxOps
    /\ \E r \in ClientRecords(p) :
          caller' = [caller EXCEPT ![p] = ItemFrame(caller[p], r)]
    /\ UNCHANGED <<impl, store, scraper, feed, run, schedVars, otherVars>>

Batches(p) == UNION {[1..n -> ClientRecords(p)] : n \in 0..MaxBatch}

\* a client of the Store calls insert_news_batch
CallInsertBatch(p) ==
    /\ Callable(p)
    /\ caller[p].ops < MaxOps
    /\ \E items \in Batches(p) :
          caller' = [caller EXCEPT ![p] = BatchFrame(caller[p], items)]
    /\ UNCHANGED <<impl, store, scraper, feed, run, schedVars, otherVars>>

StoreStep(p) ==
    \/ ItemQuery(p)
    \/ ItemCommit(p)
    \/ Fallback(p)
    \/ RootBatchLoop(p)
    \/ RootBatchCommit(p)
    \/ DbBatchQuery(p)
    \/ DbBatchCommit(p)
    \/ MongoBatchExists(p)
    \/ MongoBatchSave(p)

StoreInit ==
    /\ impl \in Impls
    /\ store = <<>>
    /\ caller = [p \in Procs |-> IdleFrame]

StoreNext ==
    \E p \in Procs : CallInsertItem(p) \/ CallInsertBatch(p) \/ StoreStep(p)

(***************************************************************************)
(* The pipeline: scrape_news of BaseNewsScraper (base_scraper_orm.py) and  *)
(* of SETNScraper (scrapying/setn_new.py), run by caller Runner.           *)
(***************************************************************************)
Runner == 1

Scrapers == {"BaseNewsScraper", "SETNScraper"}

\* the news_source the scraper was constructed with
NewsSource(cls) == IF cls = "SETNScraper" THEN "SETN" ELSE "LTN"

\* a list entry: the url ("" when the entry has none, else the article
\* address carrying NewsID=n) and whether its publish_time is today's date
NoUrl == [kind |-> "none", n |-> 0]
Urls == [kind : {"NewsID"}, n : Ids]
ListItems(cls) ==
    IF cls = "SETNScraper"
       THEN \* SETNScraper._get_news_list builds every url from the link
            [url : Urls, today : BOOLEAN]
       ELSE [url : Urls \cup {NoUrl}, today : {TRUE}]

\* a list page: soup is None when _get_page_content gives up, else the page
\* parses to its entries
NoPage == [soup |-> FALSE, news_list |-> <<>>]
PageLists(cls) == UNION {[1..n -> ListItems(cls)] : n \in 0..MaxItems}
Pages(cls) == {NoPage} \cup [soup : {TRUE}, news_list : PageLists(cls)]

\* SETNScraper._extract_news_id: news_url.split('NewsID=')[-1]
ExtractNewsId(url) == url.n

\* SETNScraper._should_process_news: only entries published today
ShouldProcess(cls, item) == cls # "SETNScraper" \/ item.today

\* a news_exists whose query never finds a row
NewsExistsNever(src, id) == FALSE

\* news_exists(news_source, news_id): one query on committed rows; when the
\* query raises, "except Exception: ... return False"
NewsExists(src, id) == db_up /\ Exists(store, <<src, id>>)

\* _convert_to_db_format: the row collected for an entry
DbData(cls, id) ==
    [news_source |-> NewsSource(cls), news_id |-> id, title |-> TitleOf(Runner)]

ZeroStats == [total |-> 0, new |-> 0, skipped |-> 0, failed |-> 0]

IdleRun ==
    [pc |-> "idle", page |-> 1, item |-> 1, stats |-> ZeroStats,
     collected_news |-> <<>>, consecutive_duplicates |-> 0,
     fetched |-> <<>>, enumerated |-> <<>>, pages_read |-> <<>>,
     store_before |-> <<>>, runs |-> 0]


\* scrape_news is called: fresh stats, empty collected_news
StartRun ==
    /\ run.pc \in {"idle", "returned"}
    /\ run.runs < MaxRuns
    /\ run' = [IdleRun EXCEPT !.pc = "page", !.runs = run.runs + 1,
                              !.store_before = store]
    /\ UNCHANGED <<impl, store, caller, scraper, feed, schedVars, otherVars>>

\* "for page in range(1, max_pages + 1)": fetch and parse one list page
FetchPage ==
    /\ run.pc = "page"
    /\ LET content == feed.pages[run.page] IN
       run' =
          IF run.page > scraper.max_pages
             THEN [run EXCEPT !.pc = "flush"]
          ELSE IF ~content.soup
             THEN \* "if not soup: continue"
                  [run EXCEPT !.page = run.page + 1,
                              !.pages_read = Append(run.pages_read, run.page)]
          ELSE IF content.news_list = <<>>
             THEN \* SETN: "if not news_list: break"
                  IF scraper.cls = "SETNScraper"
                     THEN [run EXCEPT !.pc = "flush",
                                      !.pages_read = Append(run.pages_read, run.page)]
                     ELSE [run EXCEPT !.page = run.page + 1,
                                      !.pages_read = Append(run.pages_read, run.page)]
          ELSE [run EXCEPT !.pc = "items", !.item = 1,
                           !.pages_read = Append(run.pages_read, run.page)]
    /\ UNCHANGED <<impl, store, caller, scraper, feed, schedVars, otherVars>>

\* an entry after which the scan is given up
NextItemEndsScan(r) == [r EXCEPT !.pc = "flush"]

\* the run after one entry has been handled: next entry or next page
NextItem(r) ==
    IF r.item < Len(feed.pages[r.page].news_list)
       THEN [r EXCEPT !.item = r.item + 1]
       ELSE [r EXCEPT !.pc = "page", !.page = r.page + 1]

\* the limit test with the comparison off by one
ReachedLimitLate(dup, limit) == dup > limit

\* SETN: "if consecutive_duplicates >= max_consecutive_duplicates"
ReachedLimit(dup, limit) == dup >= limit

Bump(r, key) == [r EXCEPT !.stats[key] = r.stats[key] + 1]

\* "for news_item in news_list": one entry of the page
ProcessItem ==
    /\ run.pc = "items"
    /\ LET cls == scraper.cls
           item == feed.pages[run.page].news_list[run.item]
           id == ExtractNewsId(item.url)
           exists == NewsExists(NewsSource(cls), id)
           seen == [url |-> item.url, today |-> item.today,
                    stored |-> item.url # NoUrl
                                  /\ Exists(store, <<NewsSource(cls), id>>)]
           r0 == Bump([run EXCEPT !.enumerated = Append(run.enumerated, seen)],
                      "total")
           dup == r0.consecutive_duplicates + 1
           r1 == [r0 EXCEPT !.consecutive_duplicates =
                       IF cls = "SETNScraper" THEN 0 ELSE @,
                            !.fetched = Append(r0.fetched, id)]
       IN run' =
          IF ~ShouldProcess(cls, item)
             THEN NextItem(Bump(r0, "skipped"))
          ELSE IF item.url = NoUrl
             THEN NextItem(Bump(r0, "failed"))
          ELSE IF scraper.skip_existing /\ exists
             THEN IF cls = "SETNScraper"
                     THEN IF ReachedLimit(dup, scraper.max_consecutive_duplicates)
                             THEN [Bump(r0, "skipped") EXCEPT
                                      !.consecutive_duplicates = dup,
                                      !.pc = "flush"]
                             ELSE NextItem([Bump(r0, "skipped") EXCEPT
                                      !.consecutive_duplicates = dup])
                     ELSE NextItem(Bump(r0, "skipped"))
          ELSE IF id \notin feed.detail_ok
             THEN \* _get_news_detail returned None ("if not news_detail"), or
                  \* the fetch or the merge raised into "except Exception":
                  \* either way stats['failed'] += 1 and the loop goes on
                  NextItem(Bump(r1, "failed"))
          ELSE IF ~ShouldProcess(cls, item)
             THEN \* SETN: the second check, on the merged data, whose
                  \* publish_time is still the list entry's
                  NextItem(Bump(r1, "skipped"))
          ELSE NextItem([r1 EXCEPT !.collected_news =
                                      Append(r1.collected_news, DbData(cls, id))])
    /\ UNCHANGED <<impl, store, caller, scraper, feed, schedVars, otherVars>>

\* the list _finalize_scraping hands to insert_news_batch: the collected
\* rows whose pair is still absent from the Store
FinalizeScraping(rows) ==
    FilterNew(rows, {Pair(store[i]) : i \in DOMAIN store})

\* a flush that hands no row to the Store
FlushRowsNone(cls, rows) == <<>>

\* base_scraper_orm.py "if collected_news: ... insert_news_batch(collected_news)"
FlushRows(cls, rows) ==
    IF cls = "SETNScraper" THEN FinalizeScraping(rows) ELSE rows

\* the flush starts: the pipeline calls insert_news_batch, or returns at once
\* when nothing was collected
Flush ==
    /\ run.pc = "flush"
    /\ IF run.collected_news = <<>>
          THEN /\ run' = [run EXCEPT !.pc = "returned"]
               /\ UNCHANGED caller
          ELSE /\ run' = [run EXCEPT !.pc = "flush_wait"]
               /\ caller' = [caller EXCEPT ![Runner] =
                     BatchFrame(caller[Runner],
                                FlushRows(scraper.cls, run.collected_news))]
    /\ UNCHANGED <<impl, store, scraper, feed, schedVars, otherVars>>

\* stats that count every collected row as new whatever the Store answered
FlushStatsCountsAll(st, v, n) ==
    [st EXCEPT !.new = n,
               !.failed = st.failed + (IF v.kind = "raise" THEN n ELSE 0)]

\* the stats after insert_news_batch came back with v:
\* "stats['new'] = inserted_count", or on an exception
\* "stats['failed'] += len(collected_news)"
FlushStats(st, v, n) ==
    IF v.kind = "raise" THEN [st EXCEPT !.failed = st.failed + n]
                        ELSE [st EXCEPT !.new = v.n]

\* insert_news_batch has returned or raised: scrape_news returns stats
FlushReturn ==
    /\ run.pc = "flush_wait"
    /\ caller[Runner].pc = "done"
    /\ run' = [run EXCEPT !.pc = "returned",
                          !.stats = FlushStats(run.stats, caller[Runner].ret,
                                               Len(run.collected_news))]
    /\ UNCHANGED <<impl, store, caller, scraper, feed, schedVars, otherVars>>

PipeInit ==
    /\ StoreInit
    /\ scraper \in [cls : Scrapers, skip_existing : BOOLEAN,
                    max_pages : {MaxPages},
                    max_consecutive_duplicates : 1..MaxThreshold]
    /\ scraper.cls = "BaseNewsScraper" => scraper.max_consecutive_duplicates = 1
    /\ feed \in [pages : [1..MaxPages -> Pages(scraper.cls)],
                 detail_ok : SUBSET Ids]
    /\ run = IdleRun
    /\ SchedIdle

PipeNext ==
    \/ StartRun
    \/ FetchPage
    \/ ProcessItem
    \/ Flush
    \/ FlushReturn
    \/ StoreStep(Runner)

SpecPipe == PipeInit /\ [][PipeNext]_allVars

\* the Store with two clients and no pipeline run
ClientsInit ==
    /\ StoreInit
    /\ scraper = [cls |-> "BaseNewsScraper", skip_existing |-> TRUE,
                  max_pages |-> MaxPages, max_consecutive_duplicates |-> 1]
    /\ feed = [pages |-> [k \in 1..MaxPages |-> NoPage], detail_ok |-> {}]
    /\ run = IdleRun
    /\ SchedIdle

SpecStore == ClientsInit /\ [][StoreNext]_allVars

(***************************************************************************)
(* The scheduler (api/scheduler.py) and the manual trigger (api/app.py).   *)
(* The event loop runs one coroutine step at a time, so every action is    *)
(* the code between two awaits; the scraper workers run in the executor's  *)
(* threads, beside the loop.                                               *)
(***************************************************************************)
\* task.done()
Done(t) == tasks[t].state = "done"

\* a start_scheduler that looks at the handle alone
RunningHandleOnly == sched.scheduler_task # NoTask

\* "scheduler_task and not scheduler_task.done()"
Running == sched.scheduler_task # NoTask /\ ~Done(sched.scheduler_task)

\* get_scheduler_status()["status"]
Status ==
    IF sched.scheduler_task # NoTask /\ ~Done(sched.scheduler_task)
       THEN "running" ELSE "stopped"

\* the runs the periodic loop of task t has triggered so far
Triggers(t) == Len(tasks[t].gaps) + Len(tasks[t].cooldowns)

\* the anchor test with "<" in place of "<="
NextAnchorStrict(now) ==
    LET next_run == (now \div SecondsPerDay) * SecondsPerDay
                        + AnchorHour * SecondsPerHour
    IN IF next_run < now THEN next_run + SecondsPerDay ELSE next_run

\* run_scheduler: now.replace(hour=2, minute=0, second=0, microsecond=0),
\* moved one day on "if next_run <= now"
NextAnchor(now) ==
    LET next_run == (now \div SecondsPerDay) * SecondsPerDay
                        + AnchorHour * SecondsPerHour
    IN IF next_run <= now THEN next_run + SecondsPerDay ELSE next_run

\* an interval taken for minutes
IntervalWaitMinutes(hours) == hours * 60

\* run_scheduler: wait_seconds = interval_hours * 3600
IntervalWait(hours) == hours * SecondsPerHour

\* a new run_scraper_job invocation; a worker that is scraping is at
\* scraper number src of ScraperOrder
Job(id, origin, state) == [id |-> id, origin |-> origin, state |-> state, src |-> 1]

\* the run_scraper_job call of the periodic loop: it runs inside the task,
\* so its worker is handed to the executor at once
Trigger(t, gap) ==
    /\ sched.njobs < MaxJobs
    /\ Len(tasks[t].gaps) < MaxCycles
    /\ tasks' = [tasks EXCEPT ![t] =
          [@ EXCEPT !.state = "job", !.job = sched.njobs + 1,
                    !.gaps = Append(tasks[t].gaps, gap)]]
    /\ jobs' = jobs \cup {Job(sched.njobs + 1, "periodic", "scraping")}
    /\ sched' = [sched EXCEPT !.njobs = sched.njobs + 1]

\* start_scheduler: a no-op while Running; else it creates the periodic
\* task and, detached, one immediate run_scraper_job
StartScheduler ==
    /\ sched.starts < MaxStarts
    /\ IF Running
          THEN /\ sched' = [sched EXCEPT
                     !.starts = sched.starts + 1,
                     !.last_start = [was_running |-> TRUE,
                                     returned |-> sched.scheduler_task,
                                     before |-> sched.scheduler_task,
                                     after |-> sched.scheduler_task,
                                     new_tasks |-> 0, new_jobs |-> 0]]
               /\ UNCHANGED <<tasks, jobs>>
          ELSE /\ sched.njobs < MaxJobs
               /\ LET t == sched.created + 1 IN
                  /\ tasks' = [tasks EXCEPT ![t] = [NewTask EXCEPT !.state = "new"]]
                  /\ jobs' = jobs \cup {Job(sched.njobs + 1, "immediate", "queued")}
                  /\ sched' = [sched EXCEPT
                        !.starts = sched.starts + 1,
                        !.created = t,
                        !.scheduler_task = t,
                        !.njobs = sched.njobs + 1,
                        !.last_start = [was_running |-> FALSE, returned |-> t,
                                        before |-> sched.scheduler_task,
                                        after |-> t,
                                        new_tasks |-> 1, new_jobs |-> 1]]
    /\ UNCHANGED <<clock, restVars, otherVars>>

\* run_scheduler begins: with interval_hours == 24 it sleeps until the next
\* 02:00, otherwise it enters the loop and runs the job at once
TaskBegin(t) ==
    /\ tasks[t].state = "new"
    /\ ~tasks[t].must_cancel
    /\ IF sched.interval_hours = HoursPerDay
          THEN /\ tasks' = [tasks EXCEPT ![t] =
                     [@ EXCEPT !.state = "sleep_initial",
                               !.started_at = clock,
                               !.wake = NextAnchor(clock)]]
               /\ UNCHANGED <<sched, jobs>>
          ELSE /\ Trigger(t, 0)
    /\ UNCHANGED <<clock, restVars, otherVars>>

\* a sleep of the periodic task is over: "await run_scraper_job()"
TaskWake(t) ==
    /\ tasks[t].state \in {"sleep_initial", "sleep_interval"}
    /\ ~tasks[t].must_cancel
    /\ clock = tasks[t].wake
    /\ Trigger(t, IF tasks[t].state = "sleep_initial"
                     THEN clock - tasks[t].started_at
                     ELSE clock - tasks[t].last_end)
    /\ UNCHANGED <<clock, restVars, otherVars>>

\* run_scraper_job returned to the loop: sleep interval_hours * 3600 seconds
TaskJobReturned(t) ==
    /\ tasks[t].state = "job"
    /\ ~tasks[t].must_cancel
    /\ \A j \in jobs : j.id # tasks[t].job
    /\ tasks' = [tasks EXCEPT ![t] =
          [@ EXCEPT !.state = "sleep_interval", !.last_end = clock,
                    !.wake = clock + IntervalWait(sched.interval_hours)]]
    /\ UNCHANGED <<clock, sched, jobs, restVars, otherVars>>

\* a loop whose "except Exception" ends the task
TaskJobFailedEnds(t) ==
    /\ tasks[t].state = "job"
    /\ ~tasks[t].must_cancel
    /\ \A j \in jobs : j.id # tasks[t].job
    /\ sched.faults < MaxFaults
    /\ sched' = [sched EXCEPT !.faults = sched.faults + 1]
    /\ tasks' = [tasks EXCEPT ![t] = [@ EXCEPT !.state = "done"]]
    /\ UNCHANGED <<clock, jobs, restVars, otherVars>>

\* an exception escapes "await run_scraper_job()" after its worker ended
\* (run_scraper_job catches Exception, so only an error raised inside its
\* own handler gets here): "except Exception", await asyncio.sleep(300)
TaskJobFailed(t) ==
    /\ tasks[t].state = "job"
    /\ ~tasks[t].must_cancel
    /\ \A j \in jobs : j.id # tasks[t].job
    /\ sched.faults < MaxFaults
    /\ sched' = [sched EXCEPT !.faults = sched.faults + 1]
    /\ tasks' = [tasks EXCEPT ![t] =
          [@ EXCEPT !.state = "cooldown", !.failed_at = clock,
                    !.wake = clock + CooldownSeconds]]
    /\ UNCHANGED <<clock, jobs, restVars, otherVars>>

\* the cooldown is over: back to the top of "while True",
\* "await run_scraper_job()"
TaskRetry(t) ==
    /\ tasks[t].state = "cooldown"
    /\ ~tasks[t].must_cancel
    /\ clock = tasks[t].wake
    /\ sched.njobs < MaxJobs
    /\ tasks' = [tasks EXCEPT ![t] =
          [@ EXCEPT !.state = "job", !.job = sched.njobs + 1,
                    !.cooldowns = Append(tasks[t].cooldowns,
                                         clock - tasks[t].failed_at)]]
    /\ jobs' = jobs \cup {Job(sched.njobs + 1, "periodic", "scraping")}
    /\ sched' = [sched EXCEPT !.njobs = sched.njobs + 1]
    /\ UNCHANGED <<clock, restVars, otherVars>>

\* the CancelledError of task.cancel() is thrown into the task at its
\* await: it ends the task (the initial sleep and the cooldown sleep are
\* outside the try; inside the loop "except asyncio.CancelledError: break").
\* A worker already handed to the executor keeps running.
TaskCancelled(t) ==
    /\ tasks[t].state \in {"new", "sleep_initial", "job", "sleep_interval",
                           "cooldown"}
    /\ tasks[t].must_cancel
    /\ tasks' = [tasks EXCEPT ![t] = [@ EXCEPT !.state = "done"]]
    /\ UNCHANGED <<clock, sched, jobs, restVars, otherVars>>

\* stop_scheduler up to its await: scheduler_task.cancel(), await
\* scheduler_task.  Awaiting a finished task does not suspend.
StopScheduler ==
    /\ sched.stop_pc = "idle"
    /\ sched.stops < MaxStops
    /\ LET t == sched.scheduler_task IN
       IF t = NoTask
          THEN /\ sched' = [sched EXCEPT !.stops = sched.stops + 1]
               /\ UNCHANGED tasks
          ELSE IF Done(t)
             THEN /\ sched' = [sched EXCEPT !.stops = sched.stops + 1,
                                            !.scheduler_task = NoTask]
                  /\ UNCHANGED tasks
             ELSE /\ sched' = [sched EXCEPT
                        !.stops = sched.stops + 1,
                        !.stop_pc = "await",
                        !.stop_target = t,
                        !.stop_seen = [task |-> t, state |-> tasks[t].state,
                                       triggers |-> Triggers(t)]]
                  /\ tasks' = [tasks EXCEPT ![t] = [@ EXCEPT !.must_cancel = TRUE]]
    /\ UNCHANGED <<clock, jobs, restVars, otherVars>>

\* a stop_scheduler that leaves the handle as it is
StopResumeKeepsHandle ==
    /\ sched.stop_pc = "await"
    /\ Done(sched.stop_target)
    /\ sched' = [sched EXCEPT !.stop_pc = "idle", !.stop_target = NoTask]
    /\ UNCHANGED <<clock, tasks, jobs, restVars, otherVars>>

\* stop_scheduler after its await: "scheduler_task = None"
StopResume ==
    /\ sched.stop_pc = "await"
    /\ Done(sched.stop_target)
    /\ sched' = [sched EXCEPT !.stop_pc = "idle", !.stop_target = NoTask,
                              !.scheduler_task = NoTask]
    /\ UNCHANGED <<clock, tasks, jobs, restVars, otherVars>>

\* POST /scraper/run: background_tasks.add_task(run_scraper_job)
RunScraperManually ==
    /\ sched.manuals < MaxManual
    /\ sched.njobs < MaxJobs
    /\ jobs' = jobs \cup {Job(sched.njobs + 1, "manual", "queued")}
    /\ sched' = [sched EXCEPT !.manuals = sched.manuals + 1,
                              !.njobs = sched.njobs + 1]
    /\ UNCHANGED <<clock, tasks, restVars, otherVars>>

\* a detached run_scraper_job gets the loop: loop.run_in_executor(None,
\* scraper_worker)
JobBegin(id) ==
    /\ \E j \in jobs :
          /\ j.id = id
          /\ j.state = "queued"
          /\ jobs' = (jobs \ {j}) \cup {[j EXCEPT !.state = "scraping"]}
    /\ UNCHANGED <<clock, sched, tasks, restVars, otherVars>>

\* run_all_scrapers: the scrape_news of one scraper returns; the worker goes
\* on to the next scraper, or the job ends after the last
JobStep(id) ==
    /\ \E j \in jobs :
          /\ j.id = id
          /\ j.state = "scraping"
          /\ jobs' = IF j.src < Len(ScraperOrder)
                        THEN (jobs \ {j}) \cup {[j EXCEPT !.src = j.src + 1]}
                        ELSE jobs \ {j}
    /\ UNCHANGED <<clock, sched, tasks, restVars, otherVars>>

Sleeping ==
    {t \in TaskIds :
        tasks[t].state \in {"sleep_initial", "sleep_interval", "cooldown"}}

\* time passes up to the next timer of a sleeping task
AdvanceToWake ==
    /\ \E t \in Sleeping :
          /\ tasks[t].wake > clock
          /\ \A u \in Sleeping : tasks[u].wake >= tasks[t].wake
          /\ \A u \in Sleeping : tasks[u].wake > clock
          /\ tasks[t].wake <= MaxDays * SecondsPerDay
          /\ clock' = tasks[t].wake
    /\ UNCHANGED <<sched, tasks, jobs, restVars, otherVars>>

\* time passes by one Tick while no timer is due before it
AdvanceTick ==
    /\ sched.ticks < MaxTicks
    /\ clock + Tick <= MaxDays * SecondsPerDay
    /\ \A u \in Sleeping : tasks[u].wake >= clock + Tick
    /\ clock' = clock + Tick
    /\ sched' = [sched EXCEPT !.ticks = sched.ticks + 1]
    /\ UNCHANGED <<tasks, jobs, restVars, otherVars>>

SchedInit ==
    /\ impl = "orm_root"
    /\ store = <<>>
    /\ caller = [p \in Procs |-> IdleFrame]
    /\ scraper = [cls |-> "BaseNewsScraper", skip_existing |-> TRUE,
                  max_pages |-> MaxPages, max_consecutive_duplicates |-> 1]
    /\ feed = [pages |-> [k \in 1..MaxPages |-> NoPage], detail_ok |-> {}]
    /\ run = IdleRun
    /\ OtherIdle
    /\ clock \in StartTimes
    /\ sched \in {[IdleSched EXCEPT !.interval_hours = h] : h \in Intervals}
    \* the time of day enters the program only through the daily anchor
    /\ sched.interval_hours # HoursPerDay => clock = SecondsPerHour
    /\ tasks = [t \in TaskIds |-> NewTask]
    /\ jobs = {}

SchedNext ==
    \/ StartScheduler
    \/ StopScheduler
    \/ StopResume
    \/ RunScraperManually
    \/ AdvanceToWake
    \/ AdvanceTick
    \/ \E t \in TaskIds :
          \/ TaskBegin(t) \/ TaskWake(t) \/ TaskJobReturned(t)
          \/ TaskJobFailed(t) \/ TaskRetry(t) \/ TaskCancelled(t)
    \/ \E id \in 1..MaxJobs : JobBegin(id) \/ JobStep(id)

SpecSched == SchedInit /\ [][SchedNext]_allVars

(***************************************************************************)
(* Properties.                                                             *)
(***************************************************************************)

\* C1: in every reachable Store state, whatever insert_news_item and
\* insert_news_batch calls two callers interleave, no two stored rows share
\* the same (news_source, news_id) pair, for every Store class.
Uniqueness == \A pr \in Sources \X Ids : CountPair(store, pr) <= 1

\* a finished insert_news_batch call of caller p whose list held the pair pr
\* twice while pr was not stored when the call began
CollapseCase(p, pr) ==
    /\ caller[p].pc = "done"
    /\ pr \in caller[p].absent
    /\ CountPair(caller[p].news_items, pr) = 2

\* C4: when the list passed to insert_news_batch holds two entries with the
\* same (news_source, news_id) and the pair is not stored yet, exactly one
\* row with that pair is stored after the flush.
IntraBatchCollapse ==
    \A p \in Procs : \A pr \in Sources \X Ids :
        CollapseCase(p, pr) => CountPair(store, pr) = 1

\* the number of insert_news_item calls of a batch that returned True
RECURSIVE TrueCalls(_)
TrueCalls(calls) ==
    IF calls = <<>> THEN 0
    ELSE (IF Head(calls).result THEN 1 ELSE 0) + TrueCalls(Tail(calls))

\* C5: when the batch insert of a run fails as a whole, insert_news_item is
\* called exactly once for each pending row, in order, and the run's new
\* counter is the number of those calls that returned True.
BatchThenFallback ==
    (run.pc = "returned" /\ caller[Runner].batch_failed) =>
        /\ Len(caller[Runner].one_calls) = Len(caller[Runner].news_items)
        /\ \A i \in DOMAIN caller[Runner].one_calls :
              caller[Runner].one_calls[i].item = caller[Runner].news_items[i]
        /\ run.stats.new = TrueCalls(caller[Runner].one_calls)

\* the second of two runs in sequence has returned
SecondRunReturned ==
    run.runs >= 2 /\ run.pc = "returned" /\ scraper.skip_existing

\* C2: the second of two scrape_news(skip_existing=True) runs in sequence
\* over an unchanged feed, with no other writer, reports new = 0 and leaves
\* the stored rows as they were when it started.
Idempotence ==
    SecondRunReturned => run.stats.new = 0 /\ store = run.store_before

\* C2 witness: the second run has returned after enumerating entries that
\* the first run had stored
IdempotenceWitness ==
    /\ SecondRunReturned
    /\ store # <<>>
    /\ \E i \in DOMAIN run.enumerated : run.enumerated[i].stored

\* a SETN run with skip_existing whose first max_consecutive_duplicates
\* enumerated entries were all stored when they were enumerated
SETNRun == scraper.cls = "SETNScraper" /\ scraper.skip_existing
Threshold == scraper.max_consecutive_duplicates
FirstStored ==
    /\ Len(run.enumerated) >= Threshold
    /\ \A i \in 1..Threshold : run.enumerated[i].stored

\* no detail page was fetched, the entry that reached the threshold is the
\* last one enumerated, and the scan is over (no further page is read)
StoppedEarly ==
    /\ run.fetched = <<>>
    /\ Len(run.enumerated) = Threshold
    /\ run.pc \notin {"page", "items"}

\* C6 as stated: if the first K >= max_consecutive_duplicates entries a run
\* enumerates are already stored, the run fetches no detail page and stops
\* at the entry that reaches the threshold.
EarlyTerminationStored == (SETNRun /\ FirstStored) => StoppedEarly

\* C6 amended: the same, for first entries that are stored and also pass
\* _should_process_news (an entry rejected as not of today is skipped before
\* the existence check and does not count as a duplicate).
EarlyTermination ==
    (SETNRun /\ FirstStored /\ \A i \in 1..Threshold : run.enumerated[i].today)
        => StoppedEarly

\* the entries of the feed from page k on
RECURSIVE FeedSize(_)
FeedSize(k) ==
    IF k > MaxPages THEN 0 ELSE Len(feed.pages[k].news_list) + FeedSize(k + 1)

\* C6 witness: a run stopped by the threshold while entries of the feed were
\* still ahead of it
EarlyTerminationWitness ==
    /\ SETNRun /\ FirstStored
    /\ \A i \in 1..Threshold : run.enumerated[i].today
    /\ run.pc = "flush"
    /\ Threshold > 1
    /\ FeedSize(1) > Len(run.enumerated)

(***************************************************************************)
(* Properties of the scheduler.                                            *)
(***************************************************************************)
\* the workers that are inside the scrape_news of scraper number s
ActiveOn(s) == {j \in jobs : j.state = "scraping" /\ j.src = s}

\* the run_scheduler tasks that were created and have not ended
LiveTasks == {t \in TaskIds : tasks[t].state \notin {"none", "done"}}

\* the tasks of a scheduler started with the given interval that have
\* triggered at least n runs
Triggered(t, n) == tasks[t].state # "none" /\ Len(tasks[t].gaps) >= n

\* C3: for every source at most one scrape_news invocation is active in any
\* reachable state, whatever mix of manual, immediate and periodic runs is
\* in progress.
PerSourceRunLock ==
    \A s \in 1..Len(ScraperOrder) : Cardinality(ActiveOn(s)) <= 1

\* C7: with interval_hours = 24 the first trigger of the periodic loop is at
\* the next 02:00 after the loop began: the wait is in (0, 24h], a loop begun
\* at 09:00 triggers at 02:00 of the next day, one begun at 01:00 at 02:00 of
\* the same day, one begun at exactly 02:00:00 at 02:00 of the next day.
AnchorFirstTrigger ==
    \A t \in TaskIds :
       (sched.interval_hours = 24 /\ Triggered(t, 1)) =>
          LET now == tasks[t].started_at
              wait == tasks[t].gaps[1]
              day == now \div 86400
          IN /\ wait > 0
             /\ wait <= 86400
             /\ (now + wait) % 86400 = 7200
             /\ (now % 86400 = 32400) => (now + wait = (day + 1) * 86400 + 7200)
             /\ (now % 86400 = 3600) => (now + wait = day * 86400 + 7200)
             /\ (now % 86400 = 7200) => (now + wait = (day + 1) * 86400 + 7200)

\* a loop begun at exactly 02:00:00 has triggered its first run
AnchorFirstTriggerWitness ==
    \E t \in TaskIds :
       /\ sched.interval_hours = 24
       /\ Triggered(t, 1)
       /\ tasks[t].started_at % 86400 = 7200

\* C8: with interval_hours other than 24 the periodic loop waits
\* interval_hours * 3600 seconds before its first trigger.
InitialIntervalWait ==
    \A t \in TaskIds :
       (sched.interval_hours # 24 /\ Triggered(t, 1)) =>
          tasks[t].gaps[1] = sched.interval_hours * 3600

\* C9: every trigger after the first comes exactly interval_hours * 3600
\* seconds after the end of the run before it, also with interval_hours = 24.
FixedIntervalAfterFirst ==
    \A t \in TaskIds :
       \A k \in 2..Len(tasks[t].gaps) :
          tasks[t].gaps[k] = sched.interval_hours * 3600

\* a daily loop has just made its second trigger, away from 02:00
FixedIntervalWitness ==
    \E t \in TaskIds :
       /\ sched.interval_hours = 24
       /\ Len(tasks[t].gaps) = 2
       /\ tasks[t].state = "job"
       /\ clock = tasks[t].last_end + tasks[t].gaps[2]
       /\ clock % 86400 # 7200

\* C10: start_scheduler called while Running creates no task, spawns no
\* immediate run, leaves scheduler_task unchanged and returns it; and at most
\* one periodic task exists in any reachable state.
SingleStart ==
    /\ sched.last_start.was_running =>
          /\ sched.last_start.new_tasks = 0
          /\ sched.last_start.new_jobs = 0
          /\ sched.last_start.after = sched.last_start.before
          /\ sched.last_start.returned = sched.last_start.before
    /\ Cardinality(LiveTasks) <= 1

\* a step in which a start_scheduler call runs
StartStep == sched'.starts = sched.starts + 1

\* the tasks and the jobs a step creates
CreatedTasks == {t \in TaskIds : tasks[t].state = "none" /\ tasks'[t].state # "none"}
SpawnedJobs == jobs' \ jobs

\* C11: start_scheduler called while status() is stopped creates exactly one
\* periodic task and exactly one immediate run_scraper_job, returns while
\* the task has not yet run and the job is still queued, and status() then
\* reports running.
StartWhileStopped ==
    [][(StartStep /\ Status = "stopped") =>
          /\ Cardinality(CreatedTasks) = 1
          /\ \A t \in CreatedTasks :
                tasks'[t].state = "new" /\ sched'.scheduler_task = t
          /\ jobs \subseteq jobs'
          /\ Cardinality(SpawnedJobs) = 1
          /\ \A j \in SpawnedJobs : j.origin = "immediate" /\ j.state = "queued"
          /\ Status' = "running"]_allVars

\* a start_scheduler call made after a stop_scheduler has just returned:
\* its task has not run yet, its immediate job is queued
StartWhileStoppedWitness ==
    /\ sched.stops >= 1
    /\ sched.starts >= 2
    /\ ~sched.last_start.was_running
    /\ sched.scheduler_task = sched.last_start.returned
    /\ tasks[sched.last_start.returned].state = "new"
    /\ \E j \in jobs : j.origin = "immediate" /\ j.state = "queued"
    /\ Status = "running"

\* a step in which a suspended stop_scheduler returns
StopReturns == sched.stop_pc = "await" /\ sched'.stop_pc = "idle"

\* the awaits at which the periodic task sleeps
Waits == {"sleep_initial", "sleep_interval", "cooldown"}

\* C12: a stop_scheduler issued while the periodic task is in its initial
\* wait, its interval wait or its cooldown returns with that task ended, no
\* run triggered by it since the stop was issued, scheduler_task cleared and
\* status() reporting stopped.
StopMidWait ==
    [][(StopReturns /\ sched.stop_seen.state \in Waits) =>
          /\ tasks'[sched.stop_seen.task].state = "done"
          /\ Len(tasks'[sched.stop_seen.task].gaps)
                + Len(tasks'[sched.stop_seen.task].cooldowns)
                = sched.stop_seen.triggers
          /\ sched'.scheduler_task = NoTask
          /\ Status' = "stopped"]_allVars

\* a stop_scheduler issued during the cooldown has returned
StopMidWaitWitness ==
    /\ sched.stop_pc = "idle"
    /\ sched.stops >= 1
    /\ sched.stop_seen.state = "cooldown"
    /\ Done(sched.stop_seen.task)
    /\ sched.scheduler_task = NoTask

\* a step in which a stop_scheduler call returns, suspended before or not
StopReturnsAny ==
    /\ sched'.stop_pc = "idle"
    /\ sched.stop_pc = "await" \/ sched'.stops = sched.stops + 1

\* C13: when stop_scheduler returns, no run started by the scheduler (a
\* periodic run in the thread pool, or the immediate run of start_scheduler)
\* is still in progress.
StopWaitsForRuns ==
    [][StopReturnsAny => \A j \in jobs' : j.origin = "manual"]_allVars

\* C14: an exception that escapes a run of the periodic loop is followed by
\* a cooldown of exactly 300 seconds and then by another run; while
\* stop_scheduler has not been called no periodic task ends and status()
\* reports running.
FailureKeepsLoop ==
    /\ \A t \in TaskIds :
          /\ \A k \in 1..Len(tasks[t].cooldowns) : tasks[t].cooldowns[k] = 300
          /\ tasks[t].state = "cooldown" => tasks[t].wake = tasks[t].failed_at + 300
    /\ sched.stops = 0 =>
          /\ \A t \in TaskIds : tasks[t].state # "done"
          /\ sched.created >= 1 => Status = "running"

\* the loop has triggered a run again after the cooldown of a failed run,
\* with no stop_scheduler call made
FailureKeepsLoopWitness ==
    /\ sched.stops = 0
    /\ \E t \in TaskIds :
          /\ Len(tasks[t].cooldowns) >= 1
          /\ tasks[t].state = "job"
          /\ clock = tasks[t].failed_at + 300
          /\ Status = "running"

(***************************************************************************)
(* _extract_news_id of LTNScraper, TVBSScraper and ChinaTimesScraper.      *)
(* A URL is the sequence of the parts that news_url.split('/') yields      *)
(* after the host.  str(hash(news_url)) is Python's string hash, which is  *)
(* keyed by a seed drawn when the interpreter starts.                      *)
(***************************************************************************)
MaxParts == 2
MaxSeed == 1
HashBits == 16

UrlParts ==
    {"", "politics", "breakingnews", "newspapers", "1234567",
     "20231227000123-260102", "20231227000123-260102?chdtv"}
NewsUrls == UNION {[1..n -> UrlParts] : n \in 1..MaxParts}
Seeds == 0..MaxSeed
ExtractClasses == {"LTNScraper", "TVBSScraper", "ChinaTimesScraper"}

\* str.isdigit()
IsDigit(part) == part = "1234567"

\* part.startswith('20') or '-' in part
LooksLikeStamp(part) ==
    part \in {"20231227000123-260102", "20231227000123-260102?chdtv"}

\* part.split('?')[0].split('#')[0]
CleanId(part) ==
    IF part = "20231227000123-260102?chdtv" THEN "20231227000123-260102" ELSE part

\* a number that identifies the text of the URL
PartCode(part) ==
    CASE part = "" -> 0
      [] part = "politics" -> 1
      [] part = "breakingnews" -> 2
      [] part = "newspapers" -> 3
      [] part = "1234567" -> 4
      [] part = "20231227000123-260102" -> 5
      [] OTHER -> 6

RECURSIVE UrlCode(_)
UrlCode(url) ==
    IF url = <<>> THEN 1
    ELSE (UrlCode(SubSeq(url, 1, Len(url) - 1)) * 7 + PartCode(url[Len(url)]))
            % (2 ^ HashBits)

\* str(hash(news_url)): a function of the URL and of the seed of the process
Hash(seed, url) ==
    [kind |-> "hash", text |-> <<>>,
     v |-> (UrlCode(url) + seed * 40503) % (2 ^ HashBits)]

Text(parts) == [kind |-> "text", text |-> parts, v |-> 0]

\* the positions whose part is followed by a '/', i.e. all but the last
Inner(url) == 1..(Len(url) - 1)

\* LTNScraper._extract_news_id: news_url.split('breakingnews/')[-1]
LTNExtractNewsId(seed, url) ==
    LET at == {i \in Inner(url) : url[i] = "breakingnews"}
    IN IF at # {}
          THEN LET last == CHOOSE i \in at : \A k \in at : k <= i
               IN Text(SubSeq(url, last + 1, Len(url)))
          ELSE Hash(seed, url)

\* TVBSScraper._extract_news_id: parts[-1] when it is all digits
TVBSExtractNewsId(seed, url) ==
    IF IsDigit(url[Len(url)]) THEN Text(<<url[Len(url)]>>) ELSE Hash(seed, url)

\* ChinaTimesScraper._extract_news_id: under /newspapers/ (or
\* /realtimenews/) the first part that starts with '20' or holds a '-',
\* without its query string
ChinaTimesExtractNewsId(seed, url) ==
    LET stamps == {i \in 1..Len(url) : url[i] # "" /\ LooksLikeStamp(url[i])}
    IN IF (\E i \in Inner(url) : url[i] = "newspapers") /\ stamps # {}
          THEN LET first == CHOOSE i \in stamps : \A k \in stamps : i <= k
               IN Text(<<CleanId(url[first])>>)
          ELSE Hash(seed, url)

ExtractId(cls, seed, url) ==
    CASE cls = "LTNScraper" -> LTNExtractNewsId(seed, url)
      [] cls = "TVBSScraper" -> TVBSExtractNewsId(seed, url)
      [] OTHER -> ChinaTimesExtractNewsId(seed, url)

\* a process starts (the seed of its string hash is drawn) and a scraper
\* extracts the id of a list entry
ExtractFirst ==
    /\ extract.pc = "start"
    /\ extract' = [extract EXCEPT
          !.pc = "again",
          !.first = ExtractId(extract.cls, extract.seed, extract.url)]
    /\ UNCHANGED <<restVars, schedVars, lateVars, db_up, manager, page_fetch>>

\* the same process extracts the id of the same URL once more
ExtractAgain ==
    /\ extract.pc = "again"
    /\ extract' = [extract EXCEPT
          !.pc = "exit",
          !.again = ExtractId(extract.cls, extract.seed, extract.url)]
    /\ UNCHANGED <<restVars, schedVars, lateVars, db_up, manager, page_fetch>>

\* the process ends and the next run starts in a new interpreter
Restart ==
    /\ extract.pc = "exit"
    /\ \E seed \in Seeds : extract' = [extract EXCEPT !.pc = "next", !.seed = seed]
    /\ UNCHANGED <<restVars, schedVars, lateVars, db_up, manager, page_fetch>>

\* the next run extracts the id of the same URL
ExtractNext ==
    /\ extract.pc = "next"
    /\ extract' = [extract EXCEPT
          !.pc = "done",
          !.next = ExtractId(extract.cls, extract.seed, extract.url)]
    /\ UNCHANGED <<restVars, schedVars, lateVars, db_up, manager, page_fetch>>

ExtractInit ==
    /\ StoreInit
    /\ impl = "orm_root"
    /\ scraper = [cls |-> "BaseNewsScraper", skip_existing |-> TRUE,
                  max_pages |-> MaxPages, max_consecutive_duplicates |-> 1]
    /\ feed = [pages |-> [k \in 1..MaxPages |-> NoPage], detail_ok |-> {}]
    /\ run = IdleRun
    /\ clock = 0
    /\ sched = IdleSched
    /\ tasks = [t \in TaskIds |-> NewTask]
    /\ jobs = {}
    /\ db_up = TRUE
    /\ LateIdle
    /\ manager = IdleManager
    /\ page_fetch = IdleFetch
    /\ extract \in {[IdleExtract EXCEPT !.pc = "start", !.cls = c, !.url = u,
                                        !.seed = z] :
                       c \in ExtractClasses, u \in NewsUrls, z \in Seeds}

ExtractStep == ExtractFirst \/ ExtractAgain \/ Restart \/ ExtractNext

SpecExtract == ExtractInit /\ [][ExtractStep]_allVars

\* C15: for every URL the id extracted twice in one process and once more in
\* the next process is the same id, also on the fallback-hash branch.
ExtractIdStable ==
    extract.pc = "done" =>
       extract.first = extract.again /\ extract.first = extract.next

(***************************************************************************)
(* UnifiedScraperManager.run_all_scrapers.                                 *)
(***************************************************************************)
MaxCount == 1

\* the scrapers _initialize_scrapers registers, in the order of the dict
ScraperNames == <<"SETN", "LTN", "TVBS", "ChinaTimes">>

RECURSIVE Registered(_, _)
\* the names of ScraperNames[i..] whose class was imported
Registered(i, imported) ==
    IF i > Len(ScraperNames) THEN <<>>
    ELSE (IF ScraperNames[i] \in imported THEN <<ScraperNames[i]>> ELSE <<>>)
            \o Registered(i + 1, imported)

StatKeys == {"total", "new", "skipped", "failed"}

\* what scrape_news returns: every item counts in total and in at most one
\* of the other three counters
StatsResults ==
    {st \in [StatKeys -> 0..MaxCount] :
        st.new + st.skipped + st.failed <= st.total}

ErrorResult == [error |-> "exception"]

IsStats(result) == result \in StatsResults

\* total_stats keeps only the counters of the scraper that returned last
AccumulateLast(total_stats, result) ==
    [key \in StatKeys |-> result[key]]

\* for key in total_stats: total_stats[key] += result.get(key, 0)
Accumulate(total_stats, result) ==
    [key \in StatKeys |-> total_stats[key] + result[key]]

\* run_all_scrapers is entered: results = {} and total_stats all zero
RunAllScrapers ==
    /\ manager.pc = "idle"
    /\ \E max_pages \in 1..MaxPages :
          manager' = [manager EXCEPT !.pc = "loop", !.max_pages = max_pages]
    /\ UNCHANGED <<restVars, schedVars, lateVars, db_up, extract, page_fetch>>

\* one iteration of the loop in which scrape_news returns its stats
ScraperReturns ==
    /\ manager.pc = "loop"
    /\ manager.idx <= Len(manager.scrapers)
    /\ \E result \in StatsResults :
          manager' = [manager EXCEPT
             !.calls = Append(@, [name |-> manager.scrapers[manager.idx],
                                  max_pages |-> manager.max_pages]),
             !.results = Append(@, result),
             !.total_stats = Accumulate(@, result),
             !.idx = @ + 1]
    /\ UNCHANGED <<restVars, schedVars, lateVars, db_up, extract, page_fetch>>

\* an exception of scrape_news that ends the loop: no later scraper is run
ScraperRaisesEndsPass ==
    /\ manager.pc = "loop"
    /\ manager.idx <= Len(manager.scrapers)
    /\ manager' = [manager EXCEPT
          !.calls = Append(@, [name |-> manager.scrapers[manager.idx],
                               max_pages |-> manager.max_pages]),
          !.results = Append(@, ErrorResult),
          !.idx = Len(manager.scrapers) + 1]
    /\ UNCHANGED <<restVars, schedVars, lateVars, db_up, extract, page_fetch>>

\* one iteration of the loop in which scrape_news raises
ScraperRaises ==
    /\ manager.pc = "loop"
    /\ manager.idx <= Len(manager.scrapers)
    /\ manager' = [manager EXCEPT
          !.calls = Append(@, [name |-> manager.scrapers[manager.idx],
                               max_pages |-> manager.max_pages]),
          !.results = Append(@, ErrorResult),
          !.idx = @ + 1]
    /\ UNCHANGED <<restVars, schedVars, lateVars, db_up, extract, page_fetch>>

\* the loop is over: results['總計'] = total_stats; return results
RunAllReturns ==
    /\ manager.pc = "loop"
    /\ manager.idx > Len(manager.scrapers)
    /\ manager' = [manager EXCEPT
          !.pc = "done",
          !.returned = <<[results |-> manager.results,
                          total |-> manager.total_stats]>>]
    /\ UNCHANGED <<restVars, schedVars, lateVars, db_up, extract, page_fetch>>

ManagerInit ==
    /\ StoreInit
    /\ impl = "orm_root"
    /\ scraper = [cls |-> "BaseNewsScraper", skip_existing |-> TRUE,
                  max_pages |-> MaxPages, max_consecutive_duplicates |-> 1]
    /\ feed = [pages |-> [k \in 1..MaxPages |-> NoPage], detail_ok |-> {}]
    /\ run = IdleRun
    /\ clock = 0
    /\ sched = IdleSched
    /\ tasks = [t \in TaskIds |-> NewTask]
    /\ jobs = {}
    /\ db_up = TRUE
    /\ LateIdle
    /\ extract = IdleExtract
    /\ page_fetch = IdleFetch
    /\ \E imported \in SUBSET {ScraperNames[i] : i \in 1..Len(ScraperNames)} :
          manager = [IdleManager EXCEPT !.scrapers = Registered(1, imported)]

ManagerNext == RunAllScrapers \/ ScraperReturns \/ ScraperRaises \/ RunAllReturns

SpecManager == ManagerInit /\ [][ManagerNext]_allVars

RECURSIVE SumOf(_, _)
\* the sum of counter key over the stats among results
SumOf(results, key) ==
    IF results = <<>> THEN 0
    ELSE (IF IsStats(Head(results)) THEN Head(results)[key] ELSE 0)
            + SumOf(Tail(results), key)

\* C16: when run_all returns, the pipeline was invoked exactly once for each
\* configured adapter, in order and with the given page limit, and each of
\* the four total counters is the sum of that counter over the per-adapter
\* results that were returned.
RunAllAggregates ==
    manager.pc = "done" =>
       LET ret == manager.returned[1]
       IN /\ Len(manager.calls) = Len(manager.scrapers)
          /\ \A i \in 1..Len(manager.scrapers) :
                manager.calls[i] = [name |-> manager.scrapers[i],
                                    max_pages |-> manager.max_pages]
          /\ \A name \in {manager.scrapers[i] : i \in 1..Len(manager.scrapers)} :
                Cardinality({i \in 1..Len(manager.calls) :
                                manager.calls[i].name = name}) = 1
          /\ Len(ret.results) = Len(manager.scrapers)
          /\ \A key \in StatKeys : ret.total[key] = SumOf(ret.results, key)

\* all four adapters ran, one raised, and two returned non-zero counters
RunAllAggregatesWitness ==
    /\ manager.pc = "done"
    /\ Len(manager.scrapers) = Len(ScraperNames)
    /\ \E i \in 1..Len(manager.results) : manager.results[i] = ErrorResult
    /\ \E i, j \in 1..Len(manager.results) :
          /\ i < j
          /\ IsStats(manager.results[i]) /\ manager.results[i].total > 0
          /\ IsStats(manager.results[j]) /\ manager.results[j].new > 0
    /\ manager.returned[1].total.total > 1

(***************************************************************************)
(* A run of scrape_news (base_scraper_orm.py) while the database cannot be *)
(* reached: every query and every commit raises OperationalError.          *)
(***************************************************************************)

\* insert_news_batch, database down: the existence query of an item raises
\* inside the loop's try; "except Exception: ... continue"
OutageBatchLoop(p) ==
    /\ ~db_up
    /\ caller[p].pc = "root_loop"
    /\ LET f == caller[p] IN
       caller' = [caller EXCEPT ![p] =
          [f EXCEPT !.idx = f.idx + 1,
                    !.pc = IF f.idx = Len(f.news_items) THEN "root_commit"
                                                         ELSE "root_loop"]]
    /\ UNCHANGED <<impl, store, scraper, feed, run, schedVars, otherVars>>

\* insert_news_batch, database down: leaving "with get_db_session()" calls
\* session.commit() with nothing added; it either has nothing to send and
\* insert_count (0) is returned, or it raises and get_db_session re-raises
OutageBatchCommit(p) ==
    /\ ~db_up
    /\ caller[p].pc = "root_commit"
    /\ \E ret \in {RetInt(caller[p].insert_count), RetRaise} :
          caller' = [caller EXCEPT ![p] = [@ EXCEPT !.pc = "done", !.ret = ret]]
    /\ UNCHANGED <<impl, store, scraper, feed, run, schedVars, otherVars>>

StoredBefore == {<<>>} \cup {<<r>> : r \in ClientRecords(Runner)}

OutageInit ==
    /\ impl = "orm_root"
    /\ store \in StoredBefore
    /\ caller = [p \in Procs |-> IdleFrame]
    /\ scraper \in [cls : {"BaseNewsScraper"}, skip_existing : BOOLEAN,
                    max_pages : {MaxPages}, max_consecutive_duplicates : {1}]
    /\ feed \in [pages : [1..MaxPages -> Pages(scraper.cls)],
                 detail_ok : SUBSET Ids]
    /\ run = IdleRun
    /\ clock = 0
    /\ sched = IdleSched
    /\ tasks = [t \in TaskIds |-> NewTask]
    /\ jobs = {}
    /\ db_up = FALSE
    /\ LateIdle
    /\ extract = IdleExtract
    /\ manager = IdleManager
    /\ page_fetch = IdleFetch

OutageNext ==
    \/ StartRun
    \/ FetchPage
    \/ ProcessItem
    \/ Flush
    \/ FlushReturn
    \/ OutageBatchLoop(Runner)
    \/ OutageBatchCommit(Runner)

SpecOutage == OutageInit /\ [][OutageNext]_allVars

\* the run has made a Store call (which failed): with skip_existing the
\* existence check of an entry that has a url
StoreCallFailed ==
    /\ ~db_up
    /\ scraper.skip_existing
    /\ \E i \in DOMAIN run.enumerated : run.enumerated[i].url # NoUrl

\* C17: when the Store is unavailable, the run makes no detail fetch after
\* its first failed Store call and does not return normally with the items
\* treated as new: the failure reaches the run boundary.
OutageAbortsRun ==
    StoreCallFailed => run.fetched = <<>> /\ run.pc # "returned"

(***************************************************************************)
(* insert_news_item on a pair that is already stored.                      *)
(***************************************************************************)

\* this step is p's insert_news_item finding its pair stored: by the
\* existence query, or by the unique constraint when it commits
DuplicateDetected(p) ==
    /\ caller'[p] # caller[p]
    /\ \/ /\ caller[p].pc = "item_query"
          /\ Exists(store, Pair(caller[p].news_data))
       \/ /\ caller[p].pc = "item_commit"
          /\ CommitConflict(store, <<caller[p].news_data>>)

\* this step is p's insert_news_item returning False: to the client, or to
\* the loop of _insert_news_one_by_one, which then counts nothing
ReturnsFalse(p) ==
    IF caller[p].in_fallback
       THEN /\ caller'[p].pc = "fallback"
            /\ caller'[p].insert_count = caller[p].insert_count
            /\ caller'[p].one_calls =
                  Append(caller[p].one_calls,
                         [item |-> caller[p].news_data, result |-> FALSE])
       ELSE /\ caller'[p].pc = "done"
            /\ caller'[p].ret = RetBool(FALSE)

\* C18: insert_one on a record whose (news_source, news_id) pair is already
\* stored, whether the pre-check or the uniqueness constraint at commit finds
\* it, returns false, raises nothing, and leaves the Store's records as they
\* were.
DuplicateReturnsFalse ==
    [][\A p \in Procs :
          DuplicateDetected(p) => ReturnsFalse(p) /\ store' = store]_allVars

\* a client's insert_news_item passed its pre-check, hit the constraint at
\* commit and returned False, and the row stored by the other client is intact
DuplicateReturnsFalseWitness ==
    \E p \in Procs :
       /\ caller[p].pc = "done"
       /\ caller[p].ret = RetBool(FALSE)
       /\ caller[p].pending = <<caller[p].news_data>>
       /\ \E i \in DOMAIN store :
             /\ Pair(store[i]) = Pair(caller[p].news_data)
             /\ store[i].title # caller[p].news_data.title
       /\ Len(store) = 1

(***************************************************************************)
(* _get_page_content (base_scraper_orm.py) and the page loop of            *)
(* scrape_news around it.  page_fetch.attempt is the loop variable of      *)
(* "for attempt in range(self.max_retry)"; responses and sleeps record the *)
(* session.get outcomes and the time.sleep calls made for the page at      *)
(* hand; pages records, for every page left behind, what the fetch did and *)
(* whether the page went on to be parsed.                                  *)
(***************************************************************************)
MaxRetry == 3
MaxFetchPages == 3

\* a back-off that also sleeps after the last attempt
BackoffAlways(attempt, max_retry) == <<2 ^ attempt>>

\* "if attempt < self.max_retry - 1: time.sleep(2 ** attempt)"
Backoff(attempt, max_retry) ==
    IF attempt < max_retry - 1 THEN <<2 ^ attempt>> ELSE <<>>

\* what scrape_news does with the soup of the page: "if not soup: continue",
\* else the list is parsed; either way the loop goes on to the next page
LeavePage(pf, soup) ==
    [pf EXCEPT
       !.pages = Append(@, [page |-> pf.page, soup |-> soup, parsed |-> soup,
                            responses |-> pf.responses, sleeps |-> pf.sleeps]),
       !.page = pf.page + 1,
       !.attempt = 0, !.responses = <<>>, !.sleeps = <<>>,
       !.pc = IF pf.page < pf.max_pages THEN "attempt" ELSE "done"]

\* scrape_news(max_pages) enters its page loop and asks for page 1
FetchStart ==
    /\ page_fetch.pc = "idle"
    /\ \E max_pages \in 1..MaxFetchPages :
          page_fetch' = [page_fetch EXCEPT !.pc = "attempt",
                                           !.max_pages = max_pages]
    /\ UNCHANGED <<restVars, schedVars, lateVars, db_up, extract, manager>>

\* one attempt whose session.get and raise_for_status succeed: the soup is
\* returned to scrape_news
GetSucceeds ==
    /\ page_fetch.pc = "attempt"
    /\ page_fetch.attempt < page_fetch.max_retry
    /\ page_fetch' =
          LeavePage([page_fetch EXCEPT !.responses = Append(@, TRUE)], TRUE)
    /\ UNCHANGED <<restVars, schedVars, lateVars, db_up, extract, manager>>

\* one attempt that raises RequestException: back off unless it was the last
GetFails ==
    /\ page_fetch.pc = "attempt"
    /\ page_fetch.attempt < page_fetch.max_retry
    /\ page_fetch' = [page_fetch EXCEPT
          !.responses = Append(@, FALSE),
          !.sleeps = @ \o Backoff(page_fetch.attempt, page_fetch.max_retry),
          !.attempt = @ + 1]
    /\ UNCHANGED <<restVars, schedVars, lateVars, db_up, extract, manager>>

\* range(self.max_retry) is exhausted: "return None"
GiveUp ==
    /\ page_fetch.pc = "attempt"
    /\ page_fetch.attempt >= page_fetch.max_retry
    /\ page_fetch' = LeavePage(page_fetch, FALSE)
    /\ UNCHANGED <<restVars, schedVars, lateVars, db_up, extract, manager>>

FetchInit ==
    /\ StoreInit
    /\ impl = "orm_root"
    /\ scraper = [cls |-> "BaseNewsScraper", skip_existing |-> TRUE,
                  max_pages |-> MaxPages, max_consecutive_duplicates |-> 1]
    /\ feed = [pages |-> [k \in 1..MaxPages |-> NoPage], detail_ok |-> {}]
    /\ run = IdleRun
    /\ clock = 0
    /\ sched = IdleSched
    /\ tasks = [t \in TaskIds |-> NewTask]
    /\ jobs = {}
    /\ db_up = TRUE
    /\ LateIdle
    /\ extract = IdleExtract
    /\ manager = IdleManager
    /\ \E max_retry \in 0..MaxRetry :
          page_fetch = [IdleFetch EXCEPT !.max_retry = max_retry]

FetchNext == FetchStart \/ GetSucceeds \/ GetFails \/ GiveUp

SpecFetch == FetchInit /\ [][FetchNext]_allVars

\* the sleeps 2^0, 2^1, ... that follow n failed attempts
Backoffs(n) == [k \in 1..n |-> 2 ^ (k - 1)]

\* C19: a page fetch makes at most max_retry attempts; after failed attempt k
\* that is not the last it sleeps 2^k seconds and it does not sleep after the
\* last one; it returns the content of the first successful attempt; after
\* max_retry failures it returns nothing, the page is skipped and the
\* pipeline goes on with the next page.
BoundedRetry ==
    /\ page_fetch.attempt <= page_fetch.max_retry
    /\ Len(page_fetch.responses) = page_fetch.attempt
    /\ \A i \in DOMAIN page_fetch.pages :
          LET rec == page_fetch.pages[i]
              n == Len(rec.responses)
          IN /\ rec.page = i
             /\ n <= page_fetch.max_retry
             /\ \A k \in 1..(n - 1) : ~rec.responses[k]
             /\ rec.soup <=> (n > 0 /\ rec.responses[n])
             /\ rec.soup => rec.sleeps = Backoffs(n - 1)
             /\ ~rec.soup =>
                   /\ n = page_fetch.max_retry
                   /\ rec.sleeps = Backoffs(IF n = 0 THEN 0 ELSE n - 1)
                   /\ ~rec.parsed
    /\ Len(page_fetch.pages) = page_fetch.page - 1
    /\ page_fetch.pc = "done" => Len(page_fetch.pages) = page_fetch.max_pages

\* page 1 was given up after three failures with sleeps of 1 and 2 seconds,
\* and page 2 was then fetched at its second attempt
BoundedRetryWitness ==
    /\ page_fetch.pc = "done"
    /\ page_fetch.max_retry = 3
    /\ Len(page_fetch.pages) = 2
    /\ ~page_fetch.pages[1].soup
    /\ page_fetch.pages[1].responses = <<FALSE, FALSE, FALSE>>
    /\ page_fetch.pages[1].sleeps = <<1, 2>>
    /\ page_fetch.pages[2].soup
    /\ page_fetch.pages[2].responses = <<FALSE, TRUE>>
    /\ page_fetch.pages[2].sleeps = <<1>>

(***************************************************************************)
(* Detail fetches of a run against what the Store held at enumeration.     *)
(***************************************************************************)

\* the entry scrape_news is about to handle has a url whose pair is stored
EntryStored ==
    /\ run.pc = "items"
    /\ LET item == feed.pages[run.page].news_list[run.item] IN
       /\ item.url # NoUrl
       /\ Exists(store, <<NewsSource(scraper.cls), ExtractNewsId(item.url)>>)

\* the entries of the run that had a url and were absent from the Store when
\* they were enumerated
AbsentEnumerated(r) ==
    {i \in DOMAIN r.enumerated :
        r.enumerated[i].url # NoUrl /\ ~r.enumerated[i].stored}

JobOrigins == {"periodic", "immediate", "manual"}

\* what can go wrong in scraper_worker: the import of unified_manager_orm,
\* UnifiedScraperManager(), run_all_scrapers
PassErrors == {"ImportError", "InitError", "PassError"}

NoError == "none"

\* what run_all_scrapers returned: the per-scraper entries and the totals
PassResults(returned) ==
    [kind |-> "results", results |-> returned.results, total |-> returned.total]
ErrorDict(e) == [kind |-> "error", error |-> e]

NewJobRun(origin) ==
    [co |-> "idle", worker |-> "none", origin |-> origin, log |-> <<>>,
     raised |-> NoError, worker_ret |-> <<>>, outcome |-> <<>>]

\* a worker whose handler returns the error dict and logs nothing
WorkerExceptSilent(jr, e) ==
    [jr EXCEPT !.worker = "done", !.raised = e,
               !.worker_ret = <<ErrorDict(e)>>]

\* scraper_worker: "except Exception as e": two error records, then
\* return {"error": str(e)}
WorkerExcept(jr, e) ==
    [jr EXCEPT !.worker = "done", !.raised = e,
               !.log = @ \o <<[level |-> "error", what |-> "worker", e |-> e],
                              [level |-> "error", what |-> "traceback", e |-> e]>>,
               !.worker_ret = <<ErrorDict(e)>>]

\* run_scraper_job is called; loop.run_in_executor accepts scraper_worker
JobCall ==
    /\ job_run.co = "idle"
    /\ job_run' = [job_run EXCEPT
          !.co = "awaiting", !.worker = "running",
          !.log = Append(@, [level |-> "info", what |-> "start", e |-> NoError])]
    /\ UNCHANGED <<restVars, schedVars, db_up, extract, manager, page_fetch, norm>>

\* run_scraper_job is called; run_in_executor raises (the executor is shut
\* down): the outer "except Exception" logs and returns the error dict
JobSubmitFails ==
    /\ job_run.co = "idle"
    /\ job_run' = [job_run EXCEPT
          !.co = "done",
          !.log = @ \o <<[level |-> "info", what |-> "start", e |-> NoError],
                         [level |-> "error", what |-> "job", e |-> "RuntimeError"],
                         [level |-> "error", what |-> "traceback",
                          e |-> "RuntimeError"]>>,
          !.outcome = <<[kind |-> "returned", value |-> ErrorDict("RuntimeError")]>>]
    /\ UNCHANGED <<restVars, schedVars, db_up, extract, manager, page_fetch, norm>>

\* scraper_worker: run_all_scrapers is running in the thread
WorkerPass ==
    /\ job_run.worker = "running"
    /\ ManagerNext

\* scraper_worker: run_all_scrapers has returned; the totals are logged
WorkerReturns ==
    /\ job_run.worker = "running"
    /\ manager.pc = "done"
    /\ job_run' = [job_run EXCEPT
          !.worker = "done",
          !.log = Append(@, [level |-> "info", what |-> "success",
                             e |-> NoError]),
          !.worker_ret = <<PassResults(manager.returned[1])>>]
    /\ UNCHANGED <<restVars, schedVars, db_up, extract, manager, page_fetch, norm>>

\* scraper_worker: the Manager pass raises: at the import or in the
\* constructor before run_all_scrapers starts, or out of run_all_scrapers
WorkerRaises ==
    /\ job_run.worker = "running"
    /\ manager.pc # "done"
    /\ \E e \in PassErrors :
          (e = "PassError" <=> manager.pc = "loop")
          /\ job_run' = WorkerExcept(job_run, e)
    /\ UNCHANGED <<restVars, schedVars, db_up, extract, manager, page_fetch, norm>>

\* the await of run_in_executor completes: log the end, return result
JobReturns ==
    /\ job_run.co = "awaiting"
    /\ job_run.worker = "done"
    /\ job_run' = [job_run EXCEPT
          !.co = "done",
          !.log = Append(@, [level |-> "info", what |-> "end", e |-> NoError]),
          !.outcome = <<[kind |-> "returned", value |-> job_run.worker_ret[1]]>>]
    /\ UNCHANGED <<restVars, schedVars, db_up, extract, manager, page_fetch, norm>>

\* stop_scheduler cancels the periodic task while it awaits the job:
\* CancelledError is not an Exception, it leaves run_scraper_job, and the
\* worker goes on in its thread.  The immediate and the manual run are not
\* reachable by cancel().
JobCancelled ==
    /\ job_run.co = "awaiting"
    /\ job_run.origin = "periodic"
    /\ job_run' = [job_run EXCEPT
          !.co = "done",
          !.outcome = <<[kind |-> "cancelled", value |-> <<>>]>>]
    /\ UNCHANGED <<restVars, schedVars, db_up, extract, manager, page_fetch, norm>>

JobInit ==
    /\ StoreInit
    /\ impl = "orm_root"
    /\ scraper = [cls |-> "BaseNewsScraper", skip_existing |-> TRUE,
                  max_pages |-> MaxPages, max_consecutive_duplicates |-> 1]
    /\ feed = [pages |-> [k \in 1..MaxPages |-> NoPage], detail_ok |-> {}]
    /\ run = IdleRun
    /\ clock = 0
    /\ sched = IdleSched
    /\ tasks = [t \in TaskIds |-> NewTask]
    /\ jobs = {}
    /\ db_up = TRUE
    /\ extract = IdleExtract
    /\ manager = [IdleManager EXCEPT !.scrapers = ScraperNames]
    /\ page_fetch = IdleFetch
    /\ norm = IdleNorm
    /\ \E origin \in JobOrigins : job_run = NewJobRun(origin)

JobNext ==
    \/ JobCall
    \/ JobSubmitFails
    \/ WorkerPass
    \/ WorkerReturns
    \/ WorkerRaises
    \/ JobReturns
    \/ JobCancelled

SpecJob == JobInit /\ [][JobNext]_allVars

\* the log holds an error record naming exception e
LoggedError(e) ==
    \E i \in DOMAIN job_run.log :
       job_run.log[i].level = "error" /\ job_run.log[i].e = e

\* C21: a failure inside a run is never silently dropped and never leaves
\* run_scraper_job as an exception: an exception raised by the Manager pass
\* is logged and becomes an error result, and the detached (immediate) run
\* always completes with a result.
FailureCaptured ==
    /\ job_run.raised # NoError =>
          /\ LoggedError(job_run.raised)
          /\ job_run.worker_ret = <<ErrorDict(job_run.raised)>>
    /\ job_run.co = "done" =>
          /\ job_run.outcome[1].kind \in {"returned", "cancelled"}
          /\ job_run.origin # "periodic" => job_run.outcome[1].kind = "returned"
          /\ (job_run.outcome[1].kind = "returned" /\ job_run.raised # NoError)
                => job_run.outcome[1].value = ErrorDict(job_run.raised)

\* the immediate run's Manager pass raised and the run returned the error
FailureCapturedWitness ==
    /\ job_run.origin = "immediate"
    /\ job_run.co = "done"
    /\ job_run.raised = "PassError"
    /\ job_run.outcome = <<[kind |-> "returned", value |-> ErrorDict("PassError")]>>
    /\ LoggedError("PassError")

(***************************************************************************)
(* _normalize_date_format of SETNScraper and LTNScraper on a raw publish   *)
(* time "MM/DD HH:MM".  A time is a record of year, month, day, hour and   *)
(* minute; the months at hand are January and December, around the turn of *)
(* the year.                                                               *)
(***************************************************************************)
MaxNormCalls == 2
MinYear == 2024
MaxYear == 2025
MinutesPerDay == 1440
MinutesPerHour == 60

NormClasses == {"SETNScraper", "LTNScraper"}
RawTimes == [month : {1, 12}, day : {1, 2, 31}, hour : {0, 23}, minute : {0, 30}]
Nows == [year : MinYear..MaxYear, month : {1, 12}, day : {1, 2, 31},
         hour : {0, 23}, minute : {0, 30}]

IsLeap(y) == (y % 4 = 0 /\ y % 100 # 0) \/ y % 400 = 0
DaysIn(y) == IF IsLeap(y) THEN 366 ELSE 365

\* days of year y before its month m (January or December)
DaysBefore(y, m) == IF m = 1 THEN 0 ELSE DaysIn(y) - 31

RECURSIVE DaysToYear(_)
\* days from 1 January of MinYear - 1 to 1 January of y
DaysToYear(y) == IF y < MinYear THEN 0 ELSE DaysToYear(y - 1) + DaysIn(y - 1)

\* minutes since 1 January of MinYear - 1: the order of datetime values
Minutes(t) ==
    ((DaysToYear(t.year) + DaysBefore(t.year, t.month) + t.day - 1)
        * MinutesPerDay)
    + t.hour * MinutesPerHour + t.minute

\* datetime.strptime(f"{year}/{date_str}", '%Y/%m/%d %H:%M')
At(year, raw) ==
    [year |-> year, month |-> raw.month, day |-> raw.day, hour |-> raw.hour,
     minute |-> raw.minute]

\* timedelta.days of a - b
DeltaDays(a, b) ==
    LET d == Minutes(a) - Minutes(b)
    IN IF d >= 0 THEN d \div MinutesPerDay
                 ELSE -((-d + MinutesPerDay - 1) \div MinutesPerDay)

\* SETNScraper._normalize_date_format, "MM/DD HH:MM" branch: last year's
\* date when dt > now and (dt - now).days > 0, in '%Y-%m-%d %H:%M:%S'
SETNNormalizeDate(current_year, raw, now) ==
    LET dt == At(current_year, raw)
    IN IF Minutes(dt) > Minutes(now) /\ DeltaDays(dt, now) > 0
          THEN [time |-> At(current_year - 1, raw), seconds |-> TRUE]
          ELSE [time |-> dt, seconds |-> TRUE]

\* LTNScraper._normalize_date_format, "MM/DD HH:MM" branch: '/' becomes '-'
\* and datetime.now().year is put in front; no seconds are added
LTNNormalizeDate(current_year, raw, now) ==
    [time |-> At(now.year, raw), seconds |-> FALSE]

NormalizeDate(cls, current_year, raw, now) ==
    IF cls = "SETNScraper" THEN SETNNormalizeDate(current_year, raw, now)
                           ELSE LTNNormalizeDate(current_year, raw, now)

\* _convert_to_db_format calls _normalize_date_format on the list entry's
\* publish_time
Normalize ==
    /\ norm.pc = "call"
    /\ norm' = [norm EXCEPT
          !.pc = "done",
          !.out = <<NormalizeDate(norm.cls, norm.current_year, norm.raw[1],
                                  norm.now[1])>>]
    /\ UNCHANGED <<restVars, schedVars, db_up, extract, manager, page_fetch,
                   job_run>>

\* the scraper is used again for the next list entry
NormalizeAgain ==
    /\ norm.pc = "done"
    /\ norm.calls < MaxNormCalls
    /\ \E raw \in RawTimes :
          norm' = [norm EXCEPT !.pc = "call", !.raw = <<raw>>, !.out = <<>>,
                               !.calls = @ + 1]
    /\ UNCHANGED <<restVars, schedVars, db_up, extract, manager, page_fetch,
                   job_run>>

NormInit ==
    /\ StoreInit
    /\ impl = "orm_root"
    /\ scraper = [cls |-> "BaseNewsScraper", skip_existing |-> TRUE,
                  max_pages |-> MaxPages, max_consecutive_duplicates |-> 1]
    /\ feed = [pages |-> [k \in 1..MaxPages |-> NoPage], detail_ok |-> {}]
    /\ run = IdleRun
    /\ clock = 0
    /\ sched = IdleSched
    /\ tasks = [t \in TaskIds |-> NewTask]
    /\ jobs = {}
    /\ db_up = TRUE
    /\ extract = IdleExtract
    /\ manager = IdleManager
    /\ page_fetch = IdleFetch
    /\ job_run = IdleJobRun
    /\ \E cls \in NormClasses, raw \in RawTimes, now \in Nows :
          \* SETNScraper.__init__ reads the year when the scraper is built,
          \* at the start of the pass that makes the call
          norm = [IdleNorm EXCEPT !.pc = "call", !.cls = cls, !.raw = <<raw>>,
                                  !.now = <<now>>, !.current_year = now.year]

NormNext == Normalize \/ NormalizeAgain

SpecNorm == NormInit /\ [][NormNext]_allVars

\* C22: a raw "MM/DD HH:MM" normalizes to that date and time in the current
\* year, unless that lies in the future of now by any amount, and then to
\* the same date and time in the previous year; the result is never later
\* than now.
NormalizedNotFuture ==
    norm.pc = "done" =>
       LET now == norm.now[1]
           this == At(now.year, norm.raw[1])
       IN /\ norm.out[1].time =
                IF Minutes(this) > Minutes(now) THEN At(now.year - 1, norm.raw[1])
                                                ELSE this
          /\ Minutes(norm.out[1].time) <= Minutes(now)

(***************************************************************************)
(* A pipeline run for one source next to the rows and the writes of the    *)
(* other source.  Runner runs scrape_news of BaseNewsScraper for its       *)
(* source; caller Other is the flush of a run for the other source.        *)
(***************************************************************************)
Other == 2

OtherSource(cls) == CHOOSE s \in Sources : s # NewsSource(cls)

\* the rows a run for the other source writes
OtherRecords ==
    {r \in ClientRecords(Other) : r.news_source = OtherSource(scraper.cls)}

\* the run for the other source inserts a row by insert_news_item
OtherInsertsItem ==
    /\ Callable(Other)
    /\ caller[Other].ops < MaxOps
    /\ \E r \in OtherRecords :
          caller' = [caller EXCEPT ![Other] = ItemFrame(caller[Other], r)]
    /\ UNCHANGED <<impl, store, scraper, feed, run, schedVars, otherVars>>

\* the run for the other source flushes its rows by insert_news_batch
OtherInsertsBatch ==
    /\ Callable(Other)
    /\ caller[Other].ops < MaxOps
    /\ \E items \in UNION {[1..n -> OtherRecords] : n \in 1..MaxBatch} :
          caller' = [caller EXCEPT ![Other] = BatchFrame(caller[Other], items)]
    /\ UNCHANGED <<impl, store, scraper, feed, run, schedVars, otherVars>>

IndepInit ==
    /\ impl \in Impls
    /\ caller = [p \in Procs |-> IdleFrame]
    /\ scraper \in [cls : {"BaseNewsScraper"}, skip_existing : BOOLEAN,
                    max_pages : {MaxPages}, max_consecutive_duplicates : {1}]
    /\ store \in {<<>>} \cup {<<r>> : r \in OtherRecords}
    /\ feed \in [pages : [1..MaxPages -> Pages(scraper.cls)],
                 detail_ok : SUBSET Ids]
    \* one list page is enough here: the second page cannot be fetched
    /\ feed.pages[MaxPages] = NoPage
    /\ run = IdleRun
    /\ SchedIdle

IndepNext ==
    \/ StartRun
    \/ FetchPage
    \/ ProcessItem
    \/ Flush
    \/ FlushReturn
    \/ StoreStep(Runner)
    \/ OtherInsertsItem
    \/ OtherInsertsBatch
    \/ StoreStep(Other)

SpecIndep == IndepInit /\ [][IndepNext]_allVars

\* the stored rows of source src, in order
RECURSIVE RowsOf(_, _)
RowsOf(s, src) ==
    IF s = <<>> THEN <<>>
    ELSE (IF Head(s).news_source = src THEN <<Head(s)>> ELSE <<>>)
            \o RowsOf(Tail(s), src)

\* the entry scrape_news is about to handle has a url, and no row of the
\* run's own source carries its id
FreshEntry ==
    /\ run.pc = "items"
    /\ LET item == feed.pages[run.page].news_list[run.item] IN
       /\ item.url # NoUrl
       /\ \A i \in DOMAIN store :
             store[i].news_source = NewsSource(scraper.cls)
                => store[i].news_id # ExtractNewsId(item.url)

\* the flush of the run has finished its existence checks
ChecksDone(f) == f.pc \in {"root_commit", "db_commit", "mongo_save"}

\* C23: a run for source A never adds, removes or changes a stored record of
\* source B, and a stored record (B, id) never makes an item (A, id) count as
\* existing: the run does not skip it but fetches its detail, and the flush
\* does not drop it from the batch.
SourcesIndependent ==
    [][/\ caller'[Other] = caller[Other] =>
             RowsOf(store', OtherSource(scraper.cls))
                = RowsOf(store, OtherSource(scraper.cls))
       /\ (FreshEntry /\ run' # run) =>
             /\ run'.stats.skipped = run.stats.skipped
             /\ run'.fetched =
                   Append(run.fetched,
                          ExtractNewsId(feed.pages[run.page].news_list[run.item].url))
       /\ (~ChecksDone(caller[Runner]) /\ ChecksDone(caller'[Runner])) =>
             \A i \in DOMAIN caller'[Runner].news_items :
                LET item == caller'[Runner].news_items[i]
                IN (\A k \in DOMAIN store : Pair(store[k]) # Pair(item))
                      => item \in Range(caller'[Runner].pending)]_allVars

\* the run has returned with a new row stored under an id that a row of the
\* other source carries too, and that row is still there
SourcesIndependentWitness ==
    /\ run.pc = "returned"
    /\ run.stats.new >= 1
    /\ \E i, k \in DOMAIN store :
          /\ store[i].news_source = NewsSource(scraper.cls)
          /\ store[k].news_source = OtherSource(scraper.cls)
          /\ store[i].news_id = store[k].news_id
          /\ k < i


(***************************************************************************)
(* The outcomes of _should_process_news, in the words of the pipeline      *)
(* contract.                                                               *)
(***************************************************************************)
\* "Returns: bool: True 表示處理，False 表示跳過": True is accept, False is
\* reject; the predicate has no third value
Outcome(cls, item) == IF ShouldProcess(cls, item) THEN "accept" ELSE "reject"

\* the outcomes the scraper's predicate can give on the entries of its feed
Outcomes(cls) == {Outcome(cls, item) : item \in ListItems(cls)}

\* the entry the scan is about to handle
CurrentItem == feed.pages[run.page].news_list[run.item]

\* the scan is at an entry its predicate rejects
AtRejected ==
    /\ run.pc = "items"
    /\ Outcome(scraper.cls, CurrentItem) = "reject"

\* on the code every rejection is a plain reject: the entry is counted
\* skipped, no detail page is fetched for it, and the scan goes on with the
\* next entry or the next page
RejectContinues ==
    [][(AtRejected /\ run' # run) =>
          /\ run'.stats.skipped = run.stats.skipped + 1
          /\ run'.fetched = run.fetched
          /\ run'.collected_news = run.collected_news
          /\ run'.pc \in {"items", "page"}
          /\ run'.pc = "items" => run'.item = run.item + 1]_allVars

\* C24: shouldProcess is tri-state and the pipeline honours it: the predicate
\* of a scraper that filters its entries can answer accept, reject and
\* reject-and-stop, a rejected entry is counted skipped and the scan goes on,
\* and a reject-and-stop ends the whole run.
ShouldProcessTriState ==
    (run.pc = "items" /\ "reject" \in Outcomes(scraper.cls)) =>
        Outcomes(scraper.cls) = {"accept", "reject", "reject-and-stop"}


(***************************************************************************)
(* The consecutive-duplicate counter of SETNScraper.scrape_news.           *)
(***************************************************************************)
\* the scan handles one entry
ItemStep == run.pc = "items" /\ run' # run

\* the entry at hand is in the Store under the scraper's news_source
CurrentStored ==
    /\ CurrentItem.url # NoUrl
    /\ Exists(store, <<NewsSource(scraper.cls), ExtractNewsId(CurrentItem.url)>>)

\* the scan is still enumerating entries
Enumerating(r) == r.pc \in {"items", "page"}

\* C25 as stated: with skip_existing the counter goes up by exactly one for
\* each enumerated entry found in the Store, goes back to 0 for every
\* enumerated entry not found in the Store, and is below
\* max_consecutive_duplicates while the scan is enumerating.
CounterFollowsStore ==
    [][(SETNRun /\ ItemStep) =>
          /\ CurrentStored =>
                run'.consecutive_duplicates = run.consecutive_duplicates + 1
          /\ ~CurrentStored => run'.consecutive_duplicates = 0
          /\ Enumerating(run') => run'.consecutive_duplicates < Threshold]_allVars

\* C25: with skip_existing the counter goes up by exactly one for each
\* enumerated entry that passes _should_process_news and is found in the
\* Store, goes back to 0 for every enumerated entry that passes it and is
\* not found in the Store, is left unchanged by an entry it rejects, and is
\* below max_consecutive_duplicates while the scan is enumerating.
CounterFollowsChecked ==
    [][(SETNRun /\ ItemStep) =>
          /\ (~AtRejected /\ CurrentStored) =>
                run'.consecutive_duplicates = run.consecutive_duplicates + 1
          /\ (~AtRejected /\ ~CurrentStored) => run'.consecutive_duplicates = 0
          /\ AtRejected =>
                run'.consecutive_duplicates = run.consecutive_duplicates
          /\ Enumerating(run') => run'.consecutive_duplicates < Threshold]_allVars

\* a stored entry of today raised the counter to 1 and the next entry, not
\* of today, left it there while the scan goes on
CounterFollowsCheckedWitness ==
    /\ SETNRun
    /\ Enumerating(run)
    /\ Threshold = 2
    /\ run.consecutive_duplicates = 1
    /\ Len(run.enumerated) = 2
    /\ run.enumerated[1].today /\ run.enumerated[1].stored
    /\ ~run.enumerated[2].today


(***************************************************************************)
(* The flush after an early return of SETNScraper.scrape_news              *)
(* ("return self._finalize_scraping(stats, collected_news)"), run against  *)
(* a Store that already holds an article of the source.                    *)
(***************************************************************************)
\* the scan ended at "if consecutive_duplicates >= max_consecutive_duplicates"
EndedEarly(r) ==
    /\ SETNRun
    /\ r.pc \in {"flush", "flush_wait", "returned"}
    /\ ReachedLimit(r.consecutive_duplicates, Threshold)

\* every collected row is in the Store
CollectedStored(r, s) ==
    \A i \in DOMAIN r.collected_news : Exists(s, Pair(r.collected_news[i]))

EarlyInit ==
    /\ impl \in Impls
    /\ store \in {<<r>> : r \in {x \in ClientRecords(Other) :
                                    x.news_source = "SETN"}}
    /\ caller = [p \in Procs |-> IdleFrame]
    /\ scraper \in [cls : {"SETNScraper"}, skip_existing : {TRUE},
                    max_pages : {MaxPages},
                    max_consecutive_duplicates : 1..MaxThreshold]
    /\ feed \in [pages : [1..MaxPages -> Pages(scraper.cls)],
                 detail_ok : SUBSET Ids]
    /\ run = IdleRun
    /\ SchedIdle

SpecEarly == EarlyInit /\ [][PipeNext]_allVars

ReachesDetail ==
    /\ run.pc = "items"
    /\ ShouldProcess(scraper.cls, CurrentItem)
    /\ CurrentItem.url # NoUrl
    /\ ~(scraper.skip_existing
           /\ NewsExists(NewsSource(scraper.cls), ExtractNewsId(CurrentItem.url)))

\* _get_news_detail of the entry at hand fails
DetailFails == ReachesDetail /\ ExtractNewsId(CurrentItem.url) \notin feed.detail_ok

\* the rows a scan collects from the entries it has enumerated: those that
\* passed every check and whose detail page loaded, in order
RECURSIVE CollectedFrom(_)
CollectedFrom(seen) ==
    IF seen = <<>> THEN <<>>
    ELSE LET x == Head(seen)
             keep == /\ ShouldProcess(scraper.cls, x)
                     /\ x.url # NoUrl
                     /\ ~(scraper.skip_existing /\ x.stored)
                     /\ ExtractNewsId(x.url) \in feed.detail_ok
         IN (IF keep THEN <<DbData(scraper.cls, ExtractNewsId(x.url))>> ELSE <<>>)
               \o CollectedFrom(Tail(seen))

\* C27: when the detail fetch of an entry fails, failed goes up by exactly
\* one and no other counter but total moves, the entry is not collected, the
\* scan goes on with the next entry of the page (or the next page after the
\* last entry), and the rows collected are exactly those of the entries
\* before and after it whose own detail page loaded.
DetailFailureIsolated ==
    [][/\ (DetailFails /\ run' # run) =>
             /\ run'.stats = [run.stats EXCEPT !.total = @ + 1, !.failed = @ + 1]
             /\ run'.collected_news = run.collected_news
             /\ run'.fetched = Append(run.fetched, ExtractNewsId(CurrentItem.url))
             /\ IF run.item < Len(feed.pages[run.page].news_list)
                   THEN run'.pc = "items" /\ run'.page = run.page
                        /\ run'.item = run.item + 1
                   ELSE run'.pc = "page" /\ run'.page = run.page + 1
       /\ run'.collected_news = CollectedFrom(run'.enumerated)]_allVars

\* the detail page of the first entry failed, the scan went on and collected
\* the second entry of the same page
DetailFailureIsolatedWitness ==
    /\ run.stats.failed = 1
    /\ Len(run.enumerated) = 2
    /\ run.pages_read = <<1>>
    /\ Len(run.fetched) = 2
    /\ run.fetched[1] \notin feed.detail_ok
    /\ run.collected_news = <<DbData(scraper.cls, run.fetched[2])>>


(***************************************************************************)
(* scrape_news of BaseNewsScraper flushing while a second writer of the    *)
(* same news_source (another run_scraper_job, which takes no lock) inserts *)
(* into the Store.                                                         *)
(***************************************************************************)
\* the rows the second writer submits: same source, its own title
RivalRecords ==
    {r \in ClientRecords(Other) : r.news_source = NewsSource(scraper.cls)}

\* the second writer inserts a row by insert_news_item
RivalInsertsItem ==
    /\ Callable(Other)
    /\ caller[Other].ops < MaxOps
    /\ \E r \in RivalRecords :
          caller' = [caller EXCEPT ![Other] = ItemFrame(caller[Other], r)]
    /\ UNCHANGED <<impl, store, scraper, feed, run, schedVars, otherVars>>

\* the second writer flushes its rows by insert_news_batch
RivalInsertsBatch ==
    /\ Callable(Other)
    /\ caller[Other].ops < MaxOps
    /\ \E items \in UNION {[1..n -> RivalRecords] : n \in 1..MaxBatch} :
          caller' = [caller EXCEPT ![Other] = BatchFrame(caller[Other], items)]
    /\ UNCHANGED <<impl, store, scraper, feed, run, schedVars, otherVars>>

RaceInit ==
    /\ StoreInit
    /\ scraper \in [cls : {"BaseNewsScraper"}, skip_existing : BOOLEAN,
                    max_pages : {MaxPages}, max_consecutive_duplicates : {1}]
    /\ feed \in [pages : [1..MaxPages -> Pages(scraper.cls)],
                 detail_ok : SUBSET Ids]
    \* one list page is enough here: the second page cannot be fetched
    /\ feed.pages[MaxPages] = NoPage
    /\ run = IdleRun
    /\ SchedIdle

RaceNext ==
    \/ StartRun
    \/ FetchPage
    \/ ProcessItem
    \/ Flush
    \/ FlushReturn
    \/ StoreStep(Runner)
    \/ RivalInsertsItem
    \/ RivalInsertsBatch
    \/ StoreStep(Other)

SpecRace == RaceInit /\ [][RaceNext]_allVars

\* the pairs of the rows the run collected
CollectedPairs == {Pair(run.collected_news[i]) : i \in DOMAIN run.collected_news}

\* the pairs the second writer has stored
RivalPairs == {Pair(store[i]) : i \in {j \in DOMAIN store : store[j].title = TitleOf(Other)}}

\* the run has returned from a flush of rows with distinct pairs, all absent
\* from the Store when insert_news_batch was called, and the second writer
\* stored one of those pairs in the meantime
FlushMetConflict ==
    /\ run.pc = "returned"
    /\ Len(run.collected_news) = Cardinality(CollectedPairs)
    /\ CollectedPairs = caller[Runner].absent
    /\ CollectedPairs \ RivalPairs # {}
    /\ CollectedPairs \cap RivalPairs # {}

\* C28: partial progress is preserved at flush: when one pending row
\* conflicts with a row a concurrent writer inserted during the flush, the
\* other pending rows are still stored and counted in new.
PartialProgress ==
    FlushMetConflict =>
       /\ \A i \in DOMAIN run.collected_news :
             Pair(run.collected_news[i]) \notin RivalPairs
                => \E j \in DOMAIN store : store[j] = run.collected_news[i]
       /\ run.stats.new = Cardinality(CollectedPairs \ RivalPairs)


(***************************************************************************)
(* The stats scrape_news of BaseNewsScraper returns.                       *)
(***************************************************************************)
\* the run has returned from BaseNewsScraper.scrape_news
BaseReturned == scraper.cls = "BaseNewsScraper" /\ run.pc = "returned"

\* "if collected_news:" the run called insert_news_batch
Flushed == run.collected_news # <<>>

\* what insert_news_batch gave back to this run
FlushResult == caller[Runner].ret

\* C29: the stats of a completed run satisfy new + skipped + failed <= total,
\* every counter is a natural number counted from 0 within the run (total is
\* the number of entries this run enumerated, and skipped, failed and the
\* collected rows add up to it), and new is the count insert_news_batch
\* returned to the run (0 when it raised or was not called).
StatsConsistent ==
    BaseReturned =>
       LET st == run.stats IN
       /\ st.new + st.skipped + st.failed <= st.total
       /\ \A k \in DOMAIN st : st[k] \in Nat
       /\ st.total = Len(run.enumerated)
       /\ st.new = IF Flushed /\ FlushResult.kind = "int" THEN FlushResult.n ELSE 0
       /\ IF Flushed /\ FlushResult.kind = "raise"
             THEN st.skipped + st.failed = st.total
             ELSE st.skipped + st.failed + Len(run.collected_news) = st.total

\* a second run has returned: it skipped the article the first run stored and
\* failed on the other, collected nothing, and its stats count its own two
\* entries only, with new at 0 although the first run's flush returned 1
StatsConsistentWitness ==
    /\ BaseReturned
    /\ run.runs = 2
    /\ run.stats = [total |-> 2, new |-> 0, skipped |-> 1, failed |-> 1]
    /\ ~Flushed
    /\ FlushResult = RetInt(1)


(***************************************************************************)
(* run_all_scrapers when scrape_news of one scraper raises.                *)
(***************************************************************************)
\* this step of the loop stored an error result
RaisedStep ==
    /\ manager.pc = "loop"
    /\ Len(manager'.results) = Len(manager.results) + 1
    /\ manager'.results[Len(manager'.results)] = ErrorResult

\* the positions of results that hold an error result
Errors(results) == {i \in DOMAIN results : results[i] = ErrorResult}

\* C30: an exception of one scraper's scrape_news does not stop the pass:
\* the step that stores the error result leaves total_stats as it was and
\* moves to the next scraper, and a pass in which a scraper raised still
\* returns, with every scraper after the failing one called, one result per
\* scraper and the totals entry present.
RaiseDoesNotStopPass ==
    [][/\ RaisedStep =>
             /\ manager'.total_stats = manager.total_stats
             /\ manager'.pc = "loop"
             /\ manager'.idx = manager.idx + 1
       /\ (manager'.pc = "done" /\ Errors(manager'.results) # {}) =>
             /\ Len(manager'.returned) = 1
             /\ manager'.returned[1].results = manager'.results
             /\ manager'.returned[1].total = manager'.total_stats
             /\ Len(manager'.results) = Len(manager'.scrapers)
             /\ \A i \in Errors(manager'.results) :
                   \A j \in (i + 1)..Len(manager'.scrapers) :
                      /\ j <= Len(manager'.calls)
                      /\ manager'.calls[j].name = manager'.scrapers[j]]_allVars

\* the first of four scrapers raised, the three after it ran and returned
\* counters, and the pass returned their sum
RaiseDoesNotStopPassWitness ==
    /\ manager.pc = "done"
    /\ Len(manager.scrapers) = 4
    /\ Errors(manager.results) = {1}
    /\ \A i \in 2..4 : IsStats(manager.results[i]) /\ manager.results[i].total = 1
    /\ manager.returned[1].total.total = 3
====
